---- MODULE Spec2Model ----
(***************************************************************************)
(* Model of the form-filling automation: automation.py (validate_excel,    *)
(* RobustElementHandler, process_file) and the GUI copy of the             *)
(* orchestrator in main.py (App.process_file).                             *)
(*                                                                         *)
(* Python values are tagged records: [t |-> "str", s |-> <chars>] is a     *)
(* str (a sequence of one-character strings), [t |-> "num", n |-> k] an    *)
(* int cell, [t |-> "nan"] the pandas missing value, [t |-> "none"] None.  *)
(***************************************************************************)
EXTENDS Integers, Sequences, FiniteSets, TLC

\* ------------------------------------------------------------------------
\* Bounds of the model
\* ------------------------------------------------------------------------
\* largest number of data rows of an input table
MaxRows == 2

\* rows of the tables validate_excel is run on by itself
MaxCredRows == 3

\* largest retries argument, and longest attempt script, a handler method is
\* called with when it is run by itself
MaxRetries == 3

\* rows of the longest workbook sent to the bot, and failed rows per run
MaxBotRows == 22

MaxBotErrors == 1

\* browsers launched by Test Login, and worker threads started, per window
MaxSessions == 3

MaxWorkers == 2

\* ------------------------------------------------------------------------
\* Python values and str operations
\* ------------------------------------------------------------------------
PyStr(chars) == [t |-> "str", s |-> chars]
PyNum(k) == [t |-> "num", n |-> k]
NaN == [t |-> "nan"]
None == [t |-> "none"]

\* isinstance(x, str)
IsStr(x) == x.t = "str"

\* pd.notna(x)
NotNa(x) == x.t \notin {"nan", "none"}

RECURSIVE Digits(_)
\* decimal digits of a natural number, as str(int) prints them
Digits(k) ==
    LET d == <<"0", "1", "2", "3", "4", "5", "6", "7", "8", "9">>
    IN  IF k < 10 THEN <<d[k + 1]>> ELSE Digits(k \div 10) \o <<d[(k % 10) + 1]>>

\* str(x), the characters
Str(x) ==
    CASE x.t = "str" -> x.s
      [] x.t = "num" -> Digits(x.n)
      [] x.t = "nan" -> <<"n", "a", "n">>
      [] x.t = "none" -> <<"N", "o", "n", "e">>

\* str.lower() on the letters the inputs use
LowerCase == [c \in {"A", "N", "R", "P", "X"} |->
                CASE c = "A" -> "a" [] c = "N" -> "n" [] c = "R" -> "r"
                  [] c = "P" -> "p" [] c = "X" -> "x"]

Lower(chars) ==
    [k \in 1..Len(chars) |->
        IF chars[k] \in DOMAIN LowerCase THEN LowerCase[chars[k]] ELSE chars[k]]

RECURSIVE LStrip(_)
LStrip(chars) ==
    IF chars # <<>> /\ Head(chars) = " " THEN LStrip(Tail(chars)) ELSE chars

RECURSIVE RStrip(_)
RStrip(chars) ==
    IF chars # <<>> /\ chars[Len(chars)] = " "
    THEN RStrip(SubSeq(chars, 1, Len(chars) - 1)) ELSE chars

\* str.strip()
Strip(chars) == RStrip(LStrip(chars))

\* position of the first ">" at or after position k, 0 when there is none
RECURSIVE FirstGt(_, _)
FirstGt(chars, k) ==
    IF k > Len(chars) THEN 0
    ELSE IF chars[k] = ">" THEN k ELSE FirstGt(chars, k + 1)

\* re.sub(r'<[^>]+>', '', chars) from position k on
RECURSIVE SubTags(_, _)
SubTags(chars, k) ==
    IF k > Len(chars) THEN <<>>
    ELSE IF chars[k] = "<" /\ FirstGt(chars, k + 1) > k + 1
         THEN SubTags(chars, FirstGt(chars, k + 1) + 1)
         ELSE <<chars[k]>> \o SubTags(chars, k + 1)

strip_html(value) ==
    IF ~IsStr(value) THEN value ELSE PyStr(Strip(SubTags(value.s, 1)))

\* ------------------------------------------------------------------------
\* Column tables
\* ------------------------------------------------------------------------
REQUIRED_COLUMNS ==
    <<"ProductName", "ProductCIBCode", "ProductRegDate",
      "InsecticideRegistrationValidUpto", "ManufacturerName",
      "PrincipalCerificateNo", "PrincipleCertificateIssueDate",
      "PrincipleCertificateValidUpto", "RegistrationNo", "Password">>

\* automation.FIELD_MAPPINGS in dict order: <<web field, excel column>>
FIELD_MAPPINGS ==
    << <<"ProductName", "ProductName">>,
       <<"ProductCIBCode", "ProductCIBCode">>,
       <<"ProductRegDate", "ProductRegDate">>,
       <<"ProductImpterManurName", "ManufacturerName">>,
       <<"PrincipleCertNo", "PrincipalCerificateNo">>,
       <<"PrincipleCertIssueDate", "PrincipleCertificateIssueDate">>,
       <<"PrincipleCertValidUpto", "PrincipleCertificateValidUpto">>,
       <<"ProductValidityDate", "InsecticideRegistrationValidUpto">> >>

\* field_mappings of App.process_file in dict order
field_mappings ==
    << <<"ProductCIBCode", "ProductCIBCode">>,
       <<"ProductRegDate", "ProductRegDate">>,
       <<"ProductImpterManurName", "ManufacturerName">>,
       <<"PrincipleCertNo", "PrincipalCerificateNo">>,
       <<"PrincipleCertValidUpto", "PrincipleCertificateValidUpto">>,
       <<"PrincipleCertIssueDate", "PrincipleCertificateIssueDate">>,
       <<"ProductValidityDate", "InsecticideRegistrationValidUpto">>,
       <<"ProductName", "ProductName">> >>

Range(seq) == {seq[k] : k \in 1..Len(seq)}

AllColumns == Range(REQUIRED_COLUMNS)

\* ------------------------------------------------------------------------
\* Input files: what pd.read_excel finds
\* ------------------------------------------------------------------------
Txt(chars) == PyStr(chars)

MkRow(name, cib, regdate, valid, manu, certno, issue, upto, reg, pw) ==
    [c \in AllColumns |->
        CASE c = "ProductName" -> name
          [] c = "ProductCIBCode" -> cib
          [] c = "ProductRegDate" -> regdate
          [] c = "InsecticideRegistrationValidUpto" -> valid
          [] c = "ManufacturerName" -> manu
          [] c = "PrincipalCerificateNo" -> certno
          [] c = "PrincipleCertificateIssueDate" -> issue
          [] c = "PrincipleCertificateValidUpto" -> upto
          [] c = "RegistrationNo" -> reg
          [] c = "Password" -> pw]

\* a row with every cell filled, one of them wrapped in markup
RowFull ==
    MkRow(Txt(<<"P", "1">>), PyNum(12), Txt(<<"d">>), Txt(<<"d">>),
          Txt(<<"<", "b", ">", "X", "<", "/", "b", ">">>), PyNum(7),
          Txt(<<"d">>), Txt(<<"d">>), Txt(<<" ", "R", "1">>), Txt(<<"p", "1">>))

\* a row with no name, a blank cell, the text nan in two letter cases, and
\* no password
RowGaps ==
    MkRow(NaN, Txt(<<"<", "i", ">", "N", "a", "N", "<", "/", "i", ">">>),
          Txt(<<" ">>), NaN, Txt(<<"X">>), Txt(<<"n", "a", "n">>),
          Txt(<<"d">>), Txt(<<"d">>), Txt(<<"R", "2">>), NaN)

\* a row with only a name and a password
RowBare ==
    MkRow(Txt(<<"A">>), NaN, NaN, NaN, NaN, NaN, NaN, NaN, NaN,
          Txt(<<"p", "2">>))

\* a row of empty cells
RowBlank == MkRow(NaN, NaN, NaN, NaN, NaN, NaN, NaN, NaN, NaN, NaN)

RowSamples == {RowFull, RowGaps, RowBare, RowBlank}

Tables == UNION {[1..k -> RowSamples] : k \in 0..MaxRows}

Restrict(row, cols) == [c \in cols |-> row[c]]

Unreadable == [readable |-> FALSE, columns |-> {}, rows |-> <<>>]

Files ==
    {Unreadable}
    \cup {[readable |-> TRUE, columns |-> AllColumns, rows |-> t] : t \in Tables}
    \cup {[readable |-> TRUE, columns |-> AllColumns \ {c},
           rows |-> <<Restrict(RowFull, AllColumns \ {c})>>] :
            c \in {"Password", "ProductCIBCode"}}

\* ------------------------------------------------------------------------
\* validate_excel
\* ------------------------------------------------------------------------
\* one cell passes the credential test of the scan loop
CredPresent(cell) ==
    NotNa(cell) /\ Strip(Str(cell)) \notin {<<>>, <<"n", "a", "n">>}

\* bool(x) of a credential variable: None and "" are falsy
Truthy(x) == x.t = "str" /\ x.s # <<>>

\* the for loop over df.iterrows() from row k on; reg and pw are the values
\* of reg_no and password on entry
RECURSIVE CredScan(_, _, _, _)
CredScan(rows, k, reg, pw) ==
    IF k > Len(rows) THEN [reg_no |-> reg, password |-> pw]
    ELSE LET r == rows[k]
             reg2 == IF CredPresent(r["RegistrationNo"])
                     THEN PyStr(Strip(Str(r["RegistrationNo"]))) ELSE reg
             pw2 == IF CredPresent(r["Password"])
                    THEN PyStr(Strip(Str(r["Password"]))) ELSE pw
         IN  IF Truthy(reg2) /\ Truthy(pw2)
             THEN [reg_no |-> reg2, password |-> pw2]
             ELSE CredScan(rows, k + 1, reg2, pw2)

Rejected(msg) ==
    [df |-> <<>>, reg_no |-> None, password |-> None, error |-> msg]

validate_excel(f) ==
    IF ~f.readable THEN Rejected("Cannot read Excel file")
    ELSE IF f.rows = <<>> THEN Rejected("Excel file has no data rows.")
    ELSE IF AllColumns \ f.columns # {} THEN Rejected("Missing required columns")
    ELSE LET df == [k \in 1..Len(f.rows) |->
                       [c \in f.columns |-> strip_html(f.rows[k][c])]]
             cr == CredScan(df, 1, None, None)
         IN  IF ~Truthy(cr.reg_no)
             THEN Rejected("RegistrationNo not found in any row.")
             ELSE IF ~Truthy(cr.password)
             THEN Rejected("Password not found in any row.")
             ELSE [df |-> df, reg_no |-> cr.reg_no, password |-> cr.password,
                   error |-> "None"]

\* ------------------------------------------------------------------------
\* RobustElementHandler
\* ------------------------------------------------------------------------
\* What one attempt of a primitive meets: "ok", or the class of the
\* exception the wait or the element operation raises.  A script lists the
\* outcomes of the successive attempts of one call; attempts past its end
\* meet "ok".
default_retries == 3

FindAbsorbed == {"TimeoutException", "NoSuchElementException"}

ClickAbsorbed == {"StaleElementReferenceException",
                  "ElementNotInteractableException", "TimeoutException"}

AttemptOutcome(script, attempt) ==
    IF attempt + 1 <= Len(script) THEN script[attempt + 1] ELSE "ok"

\* for attempt in range(retries): try ... except absorbed: if attempt ==
\* retries - 1: raise; time.sleep(1)
\* res is "ok" (the element, or True, is returned), "raise" (err propagates)
\* or "fallthrough" (the loop ends without a return statement being reached)
RECURSIVE RetryLoop(_, _, _, _)
RetryLoop(script, absorbed, retries, attempt) ==
    IF attempt >= retries
    THEN [res |-> "fallthrough", err |-> "none", attempts |-> attempt,
          sleeps |-> attempt]
    ELSE LET o == AttemptOutcome(script, attempt)
         IN  IF o = "ok"
             THEN [res |-> "ok", err |-> "none", attempts |-> attempt + 1,
                   sleeps |-> attempt]
             ELSE IF o \in absorbed /\ attempt # retries - 1
             THEN RetryLoop(script, absorbed, retries, attempt + 1)
             ELSE [res |-> "raise", err |-> o, attempts |-> attempt + 1,
                   sleeps |-> attempt]

\* safe_find_element without the raise on the last attempt: every attempt is
\* absorbed and the call returns None
safe_find_element_NoRaise(script, retries) ==
    LET r == RetryLoop(script, FindAbsorbed, retries, 0)
    IN  IF r.res = "raise" /\ r.err \in FindAbsorbed
        THEN [r EXCEPT !.res = "fallthrough", !.err = "none"]
        ELSE r

\* safe_find_element with range(retries + 1): one attempt too many
safe_find_element_ExtraAttempt(script, retries) ==
    RetryLoop(script, FindAbsorbed, retries + 1, 0)

safe_find_element(script, retries) == RetryLoop(script, FindAbsorbed, retries, 0)

\* safe_click without the retry: the first transient error is raised
safe_click_NoRetry(script, retries) == RetryLoop(script, {}, retries, 0)

safe_click(script, retries) == RetryLoop(script, ClickAbsorbed, retries, 0)

\* safe_send_keys with "except Exception" in place of the three classes
safe_send_keys_CatchAll(script, retries) ==
    RetryLoop(script, {"TimeoutException", "NoSuchElementException",
                       "StaleElementReferenceException",
                       "ElementNotInteractableException",
                       "WebDriverException"}, retries, 0)

safe_send_keys(script, retries) == RetryLoop(script, ClickAbsorbed, retries, 0)

\* outcome of the readiness wait: "ok", or the exception WebDriverWait raises
wait_for_page_load(o) ==
    IF o = "ok" THEN [res |-> "True", err |-> "none"]
    ELSE IF o = "TimeoutException" THEN [res |-> "False", err |-> "none"]
    ELSE [res |-> "raise", err |-> o]

\* the attempt scripts the orchestrator's calls are run against
CallScripts ==
    { <<"ok">>,
      <<"StaleElementReferenceException", "ok">>,
      <<"TimeoutException", "TimeoutException", "ok">>,
      <<"TimeoutException", "TimeoutException", "TimeoutException">>,
      <<"WebDriverException">> }

WaitOutcomes == {"ok", "TimeoutException", "WebDriverException"}

\* ------------------------------------------------------------------------
\* State of one run of the orchestrator
\* ------------------------------------------------------------------------
VARIABLES
    variant,          \* "core": automation.process_file, "gui": App.process_file
    file,             \* the workbook behind file_path / excel_file
    hasCallback,      \* progress_callback is not None
    pc,               \* position of the run in process_file
    step,             \* position in the login sequence
    df, reg_no, password, total_rows, success_count, error_list,
    idx,              \* index label of the current row (0-based), -1 before
    fpos,             \* position of the row in the field mapping table
    product_name,
    driver,           \* "none", "open", "quit"
    exc,              \* the exception that is propagating through the finally
    outcome,          \* "running", "returned", "raised"
    raised,           \* the exception the caller gets
    ret,              \* the value the caller gets
    \* observations of the run
    steps,            \* driver operations issued outside the row loop
    markerFound,      \* the post-login marker was found
    rowsAttempted,    \* 1-based indexes of the rows whose body was entered
    rowOps,           \* primitive calls issued for the current row
    rowResults,       \* per finished row: did every call of the row succeed
    cbLog,            \* progress sink updates
    quitCalls,        \* number of driver.quit() calls
    lastCall,         \* the last primitive call and its result
    \* the handler call under test, when a primitive is run by itself
    call,
    element,          \* the page element the call under test works on
    \* state of one handle_document call of the bot
    progress_ticks,   \* the list the progress callback appends to
    sent,             \* messages handed to context.bot.send_message
    \* state of the App window (one upload slot, index 0)
    file_paths,           \* indexes with an uploaded file
    excel_credentials,    \* credentials read from the uploaded file
    credential_entries,   \* text of the two entry widgets
    status_label,         \* text of the status line
    drivers,              \* self.drivers: index -> test-login session
    element_handlers,     \* self.element_handlers: index -> session it wraps
    sessions,             \* browsers check_upload has launched: "open", "quit"
    workers               \* the process_files threads start_automation started

vars == <<variant, file, hasCallback, pc, step, df, reg_no, password,
          total_rows, success_count, error_list, idx, fpos, product_name,
          driver, exc, outcome, raised, ret, steps, markerFound,
          rowsAttempted, rowOps, rowResults, cbLog, quitCalls, lastCall,
          call, element, progress_ticks, sent, file_paths,
          excel_credentials, credential_entries, status_label, drivers,
          element_handlers, sessions, workers>>

botVars == <<progress_ticks, sent>>

appVars == <<file_paths, excel_credentials, credential_entries, status_label>>

guiVars == <<drivers, element_handlers, sessions, workers>>

\* what no statement of process_file assigns
inputVars == <<variant, file, hasCallback, call, element, botVars,
              appVars, guiVars>>

ledgerVars == <<success_count, error_list>>

rowVars == <<idx, fpos, product_name>>

endVars == <<outcome, raised, ret>>

NoExc == [type |-> "none", at |-> "none"]

Error(type, at) == [type |-> type, at |-> at]

NoRet == [t |-> "unset"]

NoCall == [op |-> "none", loc |-> "none", res |-> "none", err |-> "none",
           attempts |-> 0, sleeps |-> 0]

Call(op, loc, r) == [op |-> op, loc |-> loc, res |-> r.res, err |-> r.err,
                     attempts |-> r.attempts, sleeps |-> r.sleeps]

\* the credentials App.process_file is called with
AppCredentials ==
    { [reg_no |-> PyStr(<<"R", "9">>), password |-> PyStr(<<"p", "9">>)],
      [reg_no |-> None, password |-> PyStr(<<"p", "9">>)] }

NoCredentials == [reg_no |-> None, password |-> None]

EmptyEntries == [reg_entry |-> <<>>, pass_entry |-> <<>>]

\* an empty dict
EmptyDict == [i \in {} |-> 0]

\* the App window as __init__ leaves it
AppAtRest ==
    /\ file_paths = {}
    /\ excel_credentials = NoCredentials
    /\ credential_entries = EmptyEntries
    /\ status_label = "none"
    /\ drivers = EmptyDict
    /\ element_handlers = EmptyDict
    /\ sessions = <<>>
    /\ workers = <<>>

NoPending == [op |-> "none", script |-> <<>>, retries |-> 0,
              fault |-> "none", clear_first |-> TRUE, text |-> None]

\* the element before a call: some earlier content, nothing done to it
FreshElement == [text |-> <<"o", "l", "d">>, clears |-> 0, keys |-> 0,
                 clicks |-> 0, clicked |-> 0]

\* no handler call is under test and no bot handler is running
Aside ==
    /\ call = NoPending
    /\ element = FreshElement
    /\ progress_ticks = <<>>
    /\ sent = <<>>

\* the locals and the observations before the first statement of a run
LocalsStart ==
    /\ step = 1
    /\ df = <<>>
    /\ total_rows = 0
    /\ success_count = 0
    /\ error_list = <<>>
    /\ idx = -1
    /\ fpos = 1
    /\ product_name = <<>>
    /\ driver = "none"
    /\ exc = NoExc
    /\ outcome = "running"
    /\ raised = NoExc
    /\ ret = NoRet
    /\ steps = <<>>
    /\ markerFound = FALSE
    /\ rowsAttempted = <<>>
    /\ rowOps = <<>>
    /\ rowResults = <<>>
    /\ cbLog = <<>>
    /\ quitCalls = 0
    /\ lastCall = NoCall

\* process_file is entered
RunStart == pc = "validate" /\ LocalsStart

Init ==
    /\ variant \in {"core", "gui"}
    /\ file \in Files
    /\ hasCallback \in IF variant = "core" THEN BOOLEAN ELSE {TRUE}
    /\ \E c \in IF variant = "core"
                THEN {[reg_no |-> None, password |-> None]}
                ELSE AppCredentials :
          /\ reg_no = c.reg_no
          /\ password = c.password
    /\ Aside
    /\ AppAtRest
    /\ RunStart

\* an exception leaves process_file before the outer try is entered
RaiseOutside(e) ==
    /\ pc' = "done"
    /\ outcome' = "raised"
    /\ raised' = e
    /\ UNCHANGED <<exc, ret>>

\* Fatal, had driver.quit() been written after the try block instead of in
\* its finally clause
FatalSkipsFinally(e) == RaiseOutside(e)

\* an exception leaves the body of the outer try: the finally clause runs
Fatal(e) ==
    /\ pc' = "quit"
    /\ exc' = e
    /\ UNCHANGED endVars

\* ------------------------------------------------------------------------
\* automation.process_file, lines 204-213, and App.process_file, 641-647
\* ------------------------------------------------------------------------
Validate ==
    /\ pc = "validate"
    /\ variant = "core"
    /\ LET v == validate_excel(file)
       IN  IF v.error # "None"
           THEN /\ RaiseOutside(Error("ValueError", "validate_excel"))
                /\ UNCHANGED <<df, reg_no, password, total_rows>>
           ELSE /\ df' = v.df
                /\ reg_no' = v.reg_no
                /\ password' = v.password
                /\ total_rows' = Len(v.df)
                /\ pc' = "launch"
                /\ UNCHANGED <<exc, endVars>>
    /\ UNCHANGED <<inputVars, step, ledgerVars, rowVars, driver, steps,
                   markerFound, rowsAttempted, rowOps, rowResults, cbLog,
                   quitCalls, lastCall>>

AppReadExcel ==
    /\ pc = "validate"
    /\ variant = "gui"
    /\ IF ~file.readable
       THEN /\ RaiseOutside(Error("ValueError", "read_excel"))
            /\ UNCHANGED df
       ELSE /\ df' = file.rows
            /\ pc' = "launch"
            /\ UNCHANGED <<exc, endVars>>
    /\ UNCHANGED <<inputVars, step, reg_no, password, total_rows, ledgerVars,
                   rowVars, driver, steps, markerFound, rowsAttempted, rowOps,
                   rowResults, cbLog, quitCalls, lastCall>>

\* GetChromeDriver, had the launch been written inside the try block: a
\* failed launch runs the finally clause
GetChromeDriverInTry ==
    /\ pc = "launch"
    /\ \E launched \in BOOLEAN :
          IF launched
          THEN /\ driver' = "open"
               /\ pc' = "login"
               /\ steps' = Append(steps, [op |-> "launch", loc |-> "none",
                                          text |-> None])
               /\ UNCHANGED <<exc, endVars>>
          ELSE /\ Fatal(Error("Exception", "get_chrome_driver"))
               /\ UNCHANGED <<driver, steps>>
    /\ UNCHANGED <<inputVars, step, df, reg_no, password, total_rows,
                   ledgerVars, rowVars, markerFound, rowsAttempted, rowOps,
                   rowResults, cbLog, quitCalls, lastCall>>

\* driver = get_chrome_driver(): outside the try block in both variants
GetChromeDriver ==
    /\ pc = "launch"
    /\ \E launched \in BOOLEAN :
          IF launched
          THEN /\ driver' = "open"
               /\ pc' = "login"
               /\ steps' = Append(steps, [op |-> "launch", loc |-> "none",
                                          text |-> None])
               /\ UNCHANGED <<exc, endVars>>
          ELSE /\ RaiseOutside(Error("Exception", "get_chrome_driver"))
               /\ UNCHANGED <<driver, steps>>
    /\ UNCHANGED <<inputVars, step, df, reg_no, password, total_rows,
                   ledgerVars, rowVars, markerFound, rowsAttempted, rowOps,
                   rowResults, cbLog, quitCalls, lastCall>>

\* ------------------------------------------------------------------------
\* Navigation and login: automation.py 216-225, main.py 650-664
\* ------------------------------------------------------------------------
LoginSequence ==
    << [op |-> "get", loc |-> "ProductDetails"],
       [op |-> "wait", loc |-> "page"],
       [op |-> "find", loc |-> "loginForm"],
       [op |-> "send", loc |-> "RegistrationNo"],
       [op |-> "send", loc |-> "Password"],
       [op |-> "click", loc |-> "login_button"],
       [op |-> "wait", loc |-> "page"],
       [op |-> "find", loc |-> "ProductCIBCode"] >>

AtLogin(op) == pc = "login" /\ LoginSequence[step].op = op

Issue(text) ==
    steps' = Append(steps, [op |-> LoginSequence[step].op,
                            loc |-> LoginSequence[step].loc, text |-> text])

\* NextStatement, had the second wait and the marker lookup been left out:
\* the row loop follows the login click
NextStatementSkipMarker ==
    /\ IF step < 6
       THEN pc' = "login" /\ step' = step + 1
       ELSE pc' = (IF variant = "core" THEN "loop" ELSE "columns")
            /\ step' = step
    /\ UNCHANGED <<exc, endVars>>

\* the statement returned: go on with the next statement of the try body
NextStatement ==
    /\ IF step < Len(LoginSequence)
       THEN pc' = "login" /\ step' = step + 1
       ELSE pc' = (IF variant = "core" THEN "loop" ELSE "columns")
            /\ step' = step
    /\ UNCHANGED <<exc, endVars>>

loginFrame == <<inputVars, df, reg_no, password, total_rows, ledgerVars,
                rowVars, driver, rowsAttempted, rowOps, rowResults, cbLog,
                quitCalls>>

DriverGet ==
    /\ AtLogin("get")
    /\ Issue(None)
    /\ \E o \in {"ok", "WebDriverException"} :
          IF o = "ok" THEN NextStatement
          ELSE Fatal(Error(o, "get")) /\ UNCHANGED step
    /\ UNCHANGED <<loginFrame, markerFound, lastCall>>

\* the result of a wait_for_page_load call as a call record
WaitCall(r) == Call("wait", "page", [res |-> r.res, err |-> r.err,
                                     attempts |-> 1, sleeps |-> 0])

\* WaitForPageLoad, had the orchestrator insisted on readiness:
\* if not handler.wait_for_page_load(): raise TimeoutException
WaitForPageLoadChecked ==
    /\ AtLogin("wait")
    /\ Issue(None)
    /\ \E o \in WaitOutcomes :
          LET r == wait_for_page_load(o)
          IN  /\ lastCall' = WaitCall(r)
              /\ IF r.res = "raise"
                 THEN Fatal(Error(r.err, "wait_for_page_load"))
                      /\ UNCHANGED step
                 ELSE IF r.res = "False"
                 THEN Fatal(Error("TimeoutException", "process_file"))
                      /\ UNCHANGED step
                 ELSE NextStatement
    /\ UNCHANGED <<loginFrame, markerFound>>

\* handler.wait_for_page_load(): the boolean it returns is dropped
WaitForPageLoad ==
    /\ AtLogin("wait")
    /\ Issue(None)
    /\ \E o \in WaitOutcomes :
          LET r == wait_for_page_load(o)
          IN  /\ lastCall' = WaitCall(r)
              /\ IF r.res = "raise"
                 THEN Fatal(Error(r.err, "wait_for_page_load"))
                      /\ UNCHANGED step
                 ELSE NextStatement
    /\ UNCHANGED <<loginFrame, markerFound>>

FindElement ==
    /\ AtLogin("find")
    /\ Issue(None)
    /\ \E script \in CallScripts :
          LET r == safe_find_element(script, default_retries)
              loc == LoginSequence[step].loc
          IN  /\ lastCall' = Call("find", loc, r)
              /\ IF r.res = "raise"
                 THEN /\ Fatal(Error(r.err, loc))
                      /\ UNCHANGED <<step, markerFound>>
                 ELSE /\ NextStatement
                      /\ markerFound' = (markerFound \/ (loc = "ProductCIBCode"
                                                           /\ r.res = "ok"))
    /\ UNCHANGED loginFrame

LoginSendKeys ==
    /\ AtLogin("send")
    /\ LET loc == LoginSequence[step].loc
           text == IF loc = "RegistrationNo" THEN reg_no ELSE password
       IN  /\ Issue(PyStr(Str(text)))
           /\ \E script \in CallScripts :
                 LET r == safe_send_keys(script, default_retries)
                 IN  /\ lastCall' = Call("send", loc, r)
                     /\ IF r.res = "raise"
                        THEN Fatal(Error(r.err, loc)) /\ UNCHANGED step
                        ELSE NextStatement
    /\ UNCHANGED <<loginFrame, markerFound>>

LoginClick ==
    /\ AtLogin("click")
    /\ Issue(None)
    /\ \E script \in CallScripts :
          LET r == safe_click(script, default_retries)
              loc == LoginSequence[step].loc
          IN  /\ lastCall' = Call("click", loc, r)
              /\ IF r.res = "raise"
                 THEN Fatal(Error(r.err, loc)) /\ UNCHANGED step
                 ELSE NextStatement
    /\ UNCHANGED <<loginFrame, markerFound>>

\* main.py 679-684: the column check of the GUI, inside the try block
AppCheckColumns ==
    /\ pc = "columns"
    /\ variant = "gui"
    /\ IF \E m \in Range(field_mappings) : m[2] \notin file.columns
       THEN /\ Fatal(Error("ValueError", "columns"))
            /\ UNCHANGED total_rows
       ELSE /\ total_rows' = Len(df)
            /\ pc' = "loop"
            /\ UNCHANGED <<exc, endVars>>
    /\ UNCHANGED <<inputVars, step, df, reg_no, password, ledgerVars, rowVars,
                   driver, steps, markerFound, rowsAttempted, rowOps,
                   rowResults, cbLog, quitCalls, lastCall>>

\* ------------------------------------------------------------------------
\* The row loop of automation.process_file, lines 229-249
\* ------------------------------------------------------------------------
\* row.get(col, default)
RowGet(row, col, default) == IF col \in DOMAIN row THEN row[col] ELSE default

RowLabelDefault(i) == PyStr(<<"R", "o", "w", " ">> \o Digits(i + 1))

\* str(val) if pd.notna(val) else ""
FieldValue(val) == IF NotNa(val) THEN Str(val) ELSE <<>>

\* Writable with the test of App.process_file, "if field_value:" alone
WritableNonEmpty(field_value) == field_value # <<>>

\* if field_value and field_value.lower() != 'nan'
Writable(field_value) ==
    field_value # <<>> /\ Lower(field_value) # <<"n", "a", "n">>

RowOp(op, loc, text, timeout) ==
    [op |-> op, loc |-> loc, text |-> text, timeout |-> timeout]

\* for idx, row in df.iterrows(): product_name = str(row.get(...))
LoopHead ==
    /\ pc = "loop"
    /\ variant = "core"
    /\ IF idx + 1 < Len(df)
       THEN /\ idx' = idx + 1
            /\ product_name' =
                  Str(RowGet(df[idx + 2], "ProductName", RowLabelDefault(idx + 1)))
            /\ fpos' = 1
            /\ rowsAttempted' = Append(rowsAttempted, idx + 2)
            /\ rowOps' = <<>>
            /\ pc' = "fields"
       ELSE /\ pc' = "quit"
            /\ UNCHANGED <<rowVars, rowsAttempted, rowOps>>
    /\ UNCHANGED <<inputVars, step, df, reg_no, password, total_rows,
                   ledgerVars, driver, exc, endVars, steps, markerFound,
                   rowResults, cbLog, quitCalls, lastCall>>

\* RowExcept with a break in the handler: the first failing row ends the loop
RowExceptBreak(err) ==
    /\ error_list' = Append(error_list,
                            [row |-> idx + 1, label |-> product_name,
                             cause |-> err])
    /\ rowResults' = Append(rowResults, [row |-> idx + 1, ok |-> FALSE])
    /\ pc' = "quit"
    /\ UNCHANGED <<success_count, fpos, exc, endVars>>

\* RowExcept that only logs: the failure never reaches error_list
RowExceptDrop(err) ==
    /\ rowResults' = Append(rowResults, [row |-> idx + 1, ok |-> FALSE])
    /\ pc' = "progress"
    /\ UNCHANGED <<ledgerVars, fpos, exc, endVars>>

\* RowExcept with error_list.insert(0, msg)
RowExceptPrepend(err) ==
    /\ error_list' = <<[row |-> idx + 1, label |-> product_name,
                        cause |-> err]>> \o error_list
    /\ rowResults' = Append(rowResults, [row |-> idx + 1, ok |-> FALSE])
    /\ pc' = "progress"
    /\ UNCHANGED <<success_count, fpos, exc, endVars>>

\* RowExcept with error_list = [msg]: only the latest failure is kept
RowExceptReplace(err) ==
    /\ error_list' = <<[row |-> idx + 1, label |-> product_name,
                        cause |-> err]>>
    /\ rowResults' = Append(rowResults, [row |-> idx + 1, ok |-> FALSE])
    /\ pc' = "progress"
    /\ UNCHANGED <<success_count, fpos, exc, endVars>>

\* except Exception as row_err: error_list.append(msg); then the finally
RowExcept(err) ==
    /\ error_list' = Append(error_list,
                            [row |-> idx + 1, label |-> product_name,
                             cause |-> err])
    /\ rowResults' = Append(rowResults, [row |-> idx + 1, ok |-> FALSE])
    /\ pc' = "progress"
    /\ UNCHANGED <<success_count, fpos, exc, endVars>>

\* FillField with a try/except around each single write: a failed write is
\* passed over and the field loop goes on
FillFieldKeepGoing ==
    /\ pc = "fields"
    /\ variant = "core"
    /\ LET web_field == FIELD_MAPPINGS[fpos][1]
           excel_col == FIELD_MAPPINGS[fpos][2]
           field_value == FieldValue(RowGet(df[idx + 1], excel_col, None))
       IN  /\ fpos' = fpos + 1
           /\ pc' = (IF fpos < Len(FIELD_MAPPINGS) THEN "fields" ELSE "click")
           /\ UNCHANGED <<ledgerVars, rowResults, exc, endVars>>
           /\ IF Writable(field_value)
              THEN /\ rowOps' = Append(rowOps,
                                       RowOp("send", web_field, field_value, 10))
                   /\ \E script \in CallScripts :
                         lastCall' = Call("send", web_field,
                                          safe_send_keys(script, default_retries))
              ELSE UNCHANGED <<rowOps, lastCall>>
    /\ UNCHANGED <<inputVars, step, df, reg_no, password, total_rows, idx,
                   product_name, driver, steps, markerFound, rowsAttempted,
                   cbLog, quitCalls>>

\* one turn of "for web_field, excel_col in FIELD_MAPPINGS.items()"
FillField ==
    /\ pc = "fields"
    /\ variant = "core"
    /\ LET web_field == FIELD_MAPPINGS[fpos][1]
           excel_col == FIELD_MAPPINGS[fpos][2]
           field_value == FieldValue(RowGet(df[idx + 1], excel_col, None))
           goOn == /\ fpos' = fpos + 1
                   /\ pc' = (IF fpos < Len(FIELD_MAPPINGS) THEN "fields"
                             ELSE "click")
                   /\ UNCHANGED <<ledgerVars, rowResults, exc, endVars>>
       IN  IF Writable(field_value)
           THEN /\ rowOps' = Append(rowOps,
                                    RowOp("send", web_field, field_value, 10))
                /\ \E script \in CallScripts :
                      LET r == safe_send_keys(script, default_retries)
                      IN  /\ lastCall' = Call("send", web_field, r)
                          /\ IF r.res = "raise" THEN RowExcept(r.err)
                             ELSE goOn
           ELSE /\ goOn
                /\ UNCHANGED <<rowOps, lastCall>>
    /\ UNCHANGED <<inputVars, step, df, reg_no, password, total_rows, idx,
                   product_name, driver, steps, markerFound, rowsAttempted,
                   cbLog, quitCalls>>

\* AddClick with success_count += 1 written before the click
AddClickCountFirst ==
    /\ pc = "click"
    /\ variant = "core"
    /\ rowOps' = Append(rowOps, RowOp("click", "add_btn", <<>>, 10))
    /\ success_count' = success_count + 1
    /\ \E script \in CallScripts :
          LET r == safe_click(script, default_retries)
          IN  /\ lastCall' = Call("click", "add_btn", r)
              /\ IF r.res = "raise"
                 THEN /\ error_list' = Append(error_list,
                                              [row |-> idx + 1,
                                               label |-> product_name,
                                               cause |-> r.err])
                      /\ rowResults' = Append(rowResults,
                                              [row |-> idx + 1, ok |-> FALSE])
                 ELSE /\ rowResults' = Append(rowResults,
                                              [row |-> idx + 1, ok |-> TRUE])
                      /\ UNCHANGED error_list
    /\ pc' = "progress"
    /\ UNCHANGED <<inputVars, step, df, reg_no, password, total_rows, rowVars,
                   driver, exc, endVars, steps, markerFound, rowsAttempted,
                   cbLog, quitCalls>>

\* AddClick that treats a click which needed a retry as a failed row
AddClickStrict ==
    /\ pc = "click"
    /\ variant = "core"
    /\ rowOps' = Append(rowOps, RowOp("click", "add_btn", <<>>, 10))
    /\ \E script \in CallScripts :
          LET r == safe_click(script, default_retries)
          IN  /\ lastCall' = Call("click", "add_btn", r)
              /\ IF r.res = "raise" \/ r.attempts > 1
                 THEN RowExcept(IF r.res = "raise" THEN r.err
                                ELSE script[1])
                 ELSE /\ success_count' = success_count + 1
                      /\ rowResults' = Append(rowResults,
                                              [row |-> idx + 1, ok |-> TRUE])
                      /\ pc' = "progress"
                      /\ UNCHANGED <<error_list, fpos, exc, endVars>>
    /\ UNCHANGED <<inputVars, step, df, reg_no, password, total_rows, idx,
                   product_name, driver, steps, markerFound, rowsAttempted,
                   cbLog, quitCalls>>

\* handler.safe_click(add_btn, timeout=10); time.sleep(0.4); success_count += 1
AddClick ==
    /\ pc = "click"
    /\ variant = "core"
    /\ rowOps' = Append(rowOps, RowOp("click", "add_btn", <<>>, 10))
    /\ \E script \in CallScripts :
          LET r == safe_click(script, default_retries)
          IN  /\ lastCall' = Call("click", "add_btn", r)
              /\ IF r.res = "raise" THEN RowExcept(r.err)
                 ELSE /\ success_count' = success_count + 1
                      /\ rowResults' = Append(rowResults,
                                              [row |-> idx + 1, ok |-> TRUE])
                      /\ pc' = "progress"
                      /\ UNCHANGED <<error_list, fpos, exc, endVars>>
    /\ UNCHANGED <<inputVars, step, df, reg_no, password, total_rows, idx,
                   product_name, driver, steps, markerFound, rowsAttempted,
                   cbLog, quitCalls>>

\* Progress with the callback given idx instead of idx + 1
ProgressZeroBased ==
    /\ pc = "progress"
    /\ variant = "core"
    /\ IF hasCallback
       THEN /\ cbLog' = Append(cbLog, [current |-> idx,
                                       total |-> total_rows,
                                       label |-> product_name])
            /\ \E returns \in BOOLEAN :
                  IF returns THEN pc' = "loop" /\ UNCHANGED exc
                  ELSE pc' = "quit" /\ exc' = Error("CallbackError",
                                                    "progress_callback")
       ELSE /\ pc' = "loop"
            /\ UNCHANGED <<cbLog, exc>>
    /\ UNCHANGED <<inputVars, step, df, reg_no, password, total_rows,
                   ledgerVars, rowVars, driver, endVars, steps, markerFound,
                   rowsAttempted, rowOps, rowResults, quitCalls, lastCall>>

\* Progress with the callback inside the row's try block: its exception
\* becomes a failure entry of the row and the loop goes on
ProgressCaught ==
    /\ pc = "progress"
    /\ variant = "core"
    /\ IF hasCallback
       THEN /\ cbLog' = Append(cbLog, [current |-> idx + 1,
                                       total |-> total_rows,
                                       label |-> product_name])
            /\ \E returns \in BOOLEAN :
                  IF returns THEN UNCHANGED error_list
                  ELSE error_list' = Append(error_list,
                                            [row |-> idx + 1,
                                             label |-> product_name,
                                             cause |-> "CallbackError"])
       ELSE UNCHANGED <<cbLog, error_list>>
    /\ pc' = "loop"
    /\ UNCHANGED <<inputVars, step, df, reg_no, password, total_rows,
                   success_count, rowVars, driver, exc, endVars, steps,
                   markerFound, rowsAttempted, rowOps, rowResults, quitCalls,
                   lastCall>>

\* finally: if progress_callback: progress_callback(idx + 1, total_rows, name)
\* The callback is the caller's code: it returns or it raises.
Progress ==
    /\ pc = "progress"
    /\ variant = "core"
    /\ IF hasCallback
       THEN /\ cbLog' = Append(cbLog, [current |-> idx + 1,
                                       total |-> total_rows,
                                       label |-> product_name])
            /\ \E returns \in BOOLEAN :
                  IF returns THEN pc' = "loop" /\ UNCHANGED exc
                  ELSE pc' = "quit" /\ exc' = Error("CallbackError",
                                                    "progress_callback")
       ELSE /\ pc' = "loop"
            /\ UNCHANGED <<cbLog, exc>>
    /\ UNCHANGED <<inputVars, step, df, reg_no, password, total_rows,
                   ledgerVars, rowVars, driver, endVars, steps, markerFound,
                   rowsAttempted, rowOps, rowResults, quitCalls, lastCall>>

\* DriverQuit with the return statement inside the finally clause: the
\* exception in flight is dropped
DriverQuitReturnInFinally ==
    /\ pc = "quit"
    /\ variant = "core"
    /\ quitCalls' = quitCalls + 1
    /\ \E o \in {"ok", "WebDriverException"} :
          driver' = (IF o = "ok" THEN "quit" ELSE "open")
    /\ pc' = "done"
    /\ outcome' = "returned"
    /\ ret' = [t |-> "ledger", success_count |-> success_count,
               error_list |-> error_list]
    /\ UNCHANGED raised
    /\ UNCHANGED <<inputVars, step, df, reg_no, password, total_rows,
                   ledgerVars, rowVars, exc, steps, markerFound,
                   rowsAttempted, rowOps, rowResults, cbLog, lastCall>>

\* finally: try: driver.quit() except Exception: pass; then the return, or
\* the exception that was propagating goes on to the caller
DriverQuit ==
    /\ pc = "quit"
    /\ variant = "core"
    /\ quitCalls' = quitCalls + 1
    /\ \E o \in {"ok", "WebDriverException"} :
          driver' = (IF o = "ok" THEN "quit" ELSE "open")
    /\ pc' = "done"
    /\ IF exc # NoExc
       THEN outcome' = "raised" /\ raised' = exc /\ UNCHANGED ret
       ELSE /\ outcome' = "returned"
            /\ ret' = [t |-> "ledger", success_count |-> success_count,
                       error_list |-> error_list]
            /\ UNCHANGED raised
    /\ UNCHANGED <<inputVars, step, df, reg_no, password, total_rows,
                   ledgerVars, rowVars, exc, steps, markerFound,
                   rowsAttempted, rowOps, rowResults, cbLog, lastCall>>

\* ------------------------------------------------------------------------
\* The row loop of App.process_file, main.py 686-712
\* ------------------------------------------------------------------------
\* for index, row in df.iterrows()
AppLoopHead ==
    /\ pc = "loop"
    /\ variant = "gui"
    /\ IF idx + 1 < Len(df)
       THEN /\ idx' = idx + 1
            /\ fpos' = 1
            /\ rowsAttempted' = Append(rowsAttempted, idx + 2)
            /\ rowOps' = <<>>
            /\ pc' = "fields"
       ELSE /\ pc' = "quit"
            /\ UNCHANGED <<idx, fpos, rowsAttempted, rowOps>>
    /\ UNCHANGED <<inputVars, step, df, reg_no, password, total_rows,
                   ledgerVars, product_name, driver, exc, endVars, steps,
                   markerFound, rowResults, cbLog, quitCalls, lastCall>>

\* except Exception as row_error: logger.error(...); continue
AppRowExcept(err) ==
    /\ rowResults' = Append(rowResults, [row |-> idx + 1, ok |-> FALSE])
    /\ pc' = "loop"
    /\ UNCHANGED <<fpos, cbLog>>

\* one turn of "for web_field, excel_field in field_mappings.items()"
AppFillField ==
    /\ pc = "fields"
    /\ variant = "gui"
    /\ LET web_field == field_mappings[fpos][1]
           excel_field == field_mappings[fpos][2]
           field_value == FieldValue(df[idx + 1][excel_field])
           goOn == /\ fpos' = fpos + 1
                   /\ pc' = (IF fpos < Len(field_mappings) THEN "fields"
                             ELSE "click")
                   /\ UNCHANGED rowResults
       IN  IF field_value # <<>>
           THEN /\ rowOps' = Append(rowOps,
                                    RowOp("send", web_field, field_value, 5))
                /\ \E script \in CallScripts :
                      LET r == safe_send_keys(script, default_retries)
                      IN  /\ lastCall' = Call("send", web_field, r)
                          /\ IF r.res = "raise" THEN AppRowExcept(r.err)
                             ELSE goOn
           ELSE /\ goOn
                /\ UNCHANGED <<rowOps, lastCall>>
    /\ UNCHANGED <<inputVars, step, df, reg_no, password, total_rows,
                   ledgerVars, idx, product_name, driver, exc, endVars, steps,
                   markerFound, rowsAttempted, cbLog, quitCalls>>

\* safe_click(add_button_locator, timeout=10); time.sleep(0.3);
\* progress_bar.set((index + 1) / total_rows)
AppAddClick ==
    /\ pc = "click"
    /\ variant = "gui"
    /\ rowOps' = Append(rowOps, RowOp("click", "add_btn", <<>>, 10))
    /\ \E script \in CallScripts :
          LET r == safe_click(script, default_retries)
          IN  /\ lastCall' = Call("click", "add_btn", r)
              /\ IF r.res = "raise" THEN AppRowExcept(r.err)
                 ELSE /\ cbLog' = Append(cbLog, [current |-> idx + 1,
                                                 total |-> total_rows,
                                                 label |-> <<>>])
                      /\ rowResults' = Append(rowResults,
                                              [row |-> idx + 1, ok |-> TRUE])
                      /\ pc' = "loop"
                      /\ UNCHANGED fpos
    /\ UNCHANGED <<inputVars, step, df, reg_no, password, total_rows,
                   ledgerVars, idx, product_name, driver, exc, endVars, steps,
                   markerFound, rowsAttempted, quitCalls>>

\* except Exception as e: raise e; finally: driver.quit()
AppDriverQuit ==
    /\ pc = "quit"
    /\ variant = "gui"
    /\ quitCalls' = quitCalls + 1
    /\ pc' = "done"
    /\ \E o \in {"ok", "WebDriverException"} :
          IF o = "ok"
          THEN /\ driver' = "quit"
               /\ IF exc # NoExc
                  THEN outcome' = "raised" /\ raised' = exc /\ UNCHANGED ret
                  ELSE /\ outcome' = "returned"
                       /\ ret' = [t |-> "none"]
                       /\ UNCHANGED raised
          ELSE /\ driver' = "open"
               /\ outcome' = "raised"
               /\ raised' = Error(o, "quit")
               /\ UNCHANGED ret
    /\ UNCHANGED <<inputVars, step, df, reg_no, password, total_rows,
                   ledgerVars, rowVars, exc, steps, markerFound,
                   rowsAttempted, rowOps, rowResults, cbLog, lastCall>>

\* ------------------------------------------------------------------------
\* Specification
\* ------------------------------------------------------------------------
Next ==
    \/ Validate
    \/ AppReadExcel
    \/ GetChromeDriver
    \/ DriverGet
    \/ WaitForPageLoad
    \/ FindElement
    \/ LoginSendKeys
    \/ LoginClick
    \/ AppCheckColumns
    \/ LoopHead
    \/ FillField
    \/ AddClick
    \/ Progress
    \/ DriverQuit
    \/ AppLoopHead
    \/ AppFillField
    \/ AppAddClick
    \/ AppDriverQuit

Spec == Init /\ [][Next]_vars

\* ------------------------------------------------------------------------
\* validate_excel by itself, on tables long enough for the credential scan
\* to pass over several rows before it stops
\* ------------------------------------------------------------------------
CredTables == UNION {[1..k -> RowSamples] : k \in 0..MaxCredRows}

CredFiles ==
    {[readable |-> TRUE, columns |-> AllColumns, rows |-> t] : t \in CredTables}

InitValidate ==
    /\ variant = "core"
    /\ file \in CredFiles
    /\ hasCallback = FALSE
    /\ reg_no = None
    /\ password = None
    /\ Aside
    /\ AppAtRest
    /\ RunStart

SpecValidate == InitValidate /\ [][Validate]_vars

\* ------------------------------------------------------------------------
\* The App window up to the launch of the browser: upload_file, the entry
\* widgets, start_automation and its worker thread (main.py 299-320,
\* 469-547, 714-812).  One upload slot, one worker.
\* ------------------------------------------------------------------------
\* the workbooks the file dialog can return
AppFiles ==
    {Unreadable}
    \cup {[readable |-> TRUE, columns |-> AllColumns, rows |-> <<r>>] :
            r \in RowSamples}

\* what the user types into an entry widget
TypedTexts == {<<>>, <<" ">>, <<"R", "9">>}

\* str(value).strip() if pd.notna(value) else None, on row 0 of the file
extract_credentials_from_excel(f) ==
    IF ~f.readable \/ f.rows = <<>> THEN NoCredentials
    ELSE LET cred(col) ==
                 IF col \in f.columns /\ NotNa(f.rows[1][col])
                 THEN PyStr(Strip(Str(f.rows[1][col]))) ELSE None
         IN  [reg_no |-> cred("RegistrationNo"), password |-> cred("Password")]

\* if value: entry.delete(0, 'end'); entry.insert(0, value)
fast_autofill_entry(text, value) == IF Truthy(value) THEN value.s ELSE text

\* entry.get().strip(), None when that is empty
EntryValue(text) == IF Strip(text) # <<>> THEN PyStr(Strip(text)) ELSE None

get_credentials ==
    IF /\ 0 \in file_paths
       /\ Truthy(excel_credentials.reg_no)
       /\ Truthy(excel_credentials.password)
    THEN excel_credentials
    ELSE [reg_no |-> EntryValue(credential_entries.reg_entry),
          password |-> EntryValue(credential_entries.pass_entry)]

\* the locals of process_file, which no App action touches
runVars == <<step, df, total_rows, ledgerVars, rowVars, driver, exc, endVars,
             steps, markerFound, rowsAttempted, rowOps, rowResults, cbLog,
             quitCalls, lastCall>>

InitApp ==
    /\ variant = "gui"
    /\ file = Unreadable
    /\ hasCallback = TRUE
    /\ reg_no = None
    /\ password = None
    /\ Aside
    /\ AppAtRest
    /\ pc = "idle"
    /\ LocalsStart

\* upload_file: the slot gets the chosen workbook and its credentials
UploadFile ==
    /\ pc \in {"idle", "started"}
    /\ \E f \in AppFiles :
          LET c == extract_credentials_from_excel(f)
          IN  /\ file' = f
              /\ file_paths' = {0}
              /\ excel_credentials' = c
              /\ credential_entries' =
                    [reg_entry |-> fast_autofill_entry(
                                      credential_entries.reg_entry, c.reg_no),
                     pass_entry |-> fast_autofill_entry(
                                      credential_entries.pass_entry, c.password)]
              /\ status_label' =
                    (IF Truthy(c.reg_no) /\ Truthy(c.password)
                     THEN "uploaded with credentials from Excel"
                     ELSE IF Truthy(c.reg_no) \/ Truthy(c.password)
                     THEN "please complete missing credentials"
                     ELSE "please enter credentials manually")
    /\ UNCHANGED <<variant, hasCallback, call, element, botVars,
                   guiVars, pc, reg_no,
                   password, runVars>>

\* the user edits one entry widget; the widgets stay enabled during a run
EditEntry ==
    /\ \E w \in {"reg_entry", "pass_entry"}, text \in TypedTexts :
          credential_entries' = [credential_entries EXCEPT ![w] = text]
    /\ UNCHANGED <<variant, file, hasCallback, call, element, botVars,
                   guiVars,
                   file_paths,
                   excel_credentials, status_label, pc, reg_no, password,
                   runVars>>

\* start_automation up to threading.Thread(...).start()
StartAutomation ==
    /\ pc = "idle"
    /\ IF file_paths = {}
       THEN /\ status_label' = "Please upload Excel files."
            /\ UNCHANGED pc
       ELSE IF ~Truthy(get_credentials.reg_no)
               \/ ~Truthy(get_credentials.password)
       THEN /\ status_label' = "Please complete credentials"
            /\ UNCHANGED pc
       ELSE /\ status_label' = "Automation in progress..."
            /\ pc' = "started"
    /\ UNCHANGED <<variant, file, hasCallback, call, element, botVars,
                   guiVars,
                   file_paths,
                   excel_credentials, credential_entries, reg_no, password,
                   runVars>>

\* process_files in the worker thread: reg_no, password =
\* self.get_credentials(i), then self.process_file(..., reg_no, password)
WorkerProcessFile ==
    /\ pc = "started"
    /\ reg_no' = get_credentials.reg_no
    /\ password' = get_credentials.password
    /\ status_label' = "Processing file"
    /\ pc' = "validate"
    /\ UNCHANGED <<variant, file, hasCallback, call, element, botVars,
                   guiVars,
                   file_paths,
                   excel_credentials, credential_entries, runVars>>

NextApp ==
    \/ UploadFile
    \/ EditEntry
    \/ StartAutomation
    \/ WorkerProcessFile
    \/ AppReadExcel
    \/ GetChromeDriver

SpecApp == InitApp /\ [][NextApp]_vars

\* ------------------------------------------------------------------------
\* One call of a RobustElementHandler method by itself, for every retries
\* argument and every course of its attempts
\* ------------------------------------------------------------------------
HandlerOutcomes ==
    {"ok", "TimeoutException", "NoSuchElementException",
     "StaleElementReferenceException", "ElementNotInteractableException",
     "WebDriverException"}

AttemptScripts == UNION {[1..k -> HandlerOutcomes] : k \in 0..MaxRetries}

\* the values safe_send_keys is given as text
SendTexts == {PyStr(<<"P", "1">>), PyNum(12)}

\* fault is the statement of the try body a failing attempt raises from;
\* "partial" is a send_keys that raises with part of the text typed
HandlerCalls ==
    [op : {"find"}, script : AttemptScripts, retries : 0..MaxRetries,
     fault : {"wait"}, clear_first : {TRUE}, text : {None}]
    \cup [op : {"click"}, script : AttemptScripts, retries : 0..MaxRetries,
          fault : {"wait", "click"}, clear_first : {TRUE}, text : {None}]
    \cup [op : {"send"}, script : AttemptScripts, retries : 0..MaxRetries,
          fault : {"wait", "clear", "keys", "partial"},
          clear_first : BOOLEAN, text : SendTexts]

\* el.clear() issued by the first attempt only
ClearedOnce(el) ==
    IF el.clears = 0 THEN [el EXCEPT !.text = <<>>, !.clears = 1] ELSE el

\* el.clear()
Cleared(el) == [el EXCEPT !.text = <<>>, !.clears = @ + 1]

\* el.send_keys(chars), typed in full
Typed(el, chars) == [el EXCEPT !.text = @ \o chars, !.keys = @ + 1]

\* what one attempt with outcome o does to the element: the body of the try
\* statement up to the statement that raises
AttemptEffect(c, o, el) ==
    CASE c.op = "find" -> el
      [] c.op = "click" ->
            IF o = "ok"
            THEN [el EXCEPT !.clicks = @ + 1, !.clicked = @ + 1]
            ELSE IF c.fault = "click" THEN [el EXCEPT !.clicks = @ + 1]
            ELSE el
      [] c.op = "send" ->
            LET chars == Str(c.text)
                ready == IF c.clear_first THEN Cleared(el) ELSE el
            IN  IF o = "ok" THEN Typed(ready, chars)
                ELSE IF c.fault = "wait" THEN el
                ELSE IF c.fault = "clear" /\ c.clear_first
                THEN [el EXCEPT !.clears = @ + 1]
                ELSE IF c.fault = "partial"
                THEN Typed(ready, SubSeq(chars, 1, 1))
                ELSE [ready EXCEPT !.keys = @ + 1]

\* the element after the first n attempts of the call
RECURSIVE ElementAfter(_, _, _)
ElementAfter(c, n, el) ==
    IF n = 0 THEN el
    ELSE AttemptEffect(c, AttemptOutcome(c.script, n - 1),
                       ElementAfter(c, n - 1, el))

InitHandler ==
    /\ variant = "core"
    /\ file = Unreadable
    /\ hasCallback = FALSE
    /\ reg_no = None
    /\ password = None
    /\ call \in HandlerCalls
    /\ element = FreshElement
    /\ progress_ticks = <<>>
    /\ sent = <<>>
    /\ AppAtRest
    /\ pc = "handler"
    /\ LocalsStart

\* the method runs from its first statement to its return or raise
HandlerCall ==
    /\ pc = "handler"
    /\ LET r == CASE call.op = "find" ->
                        safe_find_element(call.script, call.retries)
                   [] call.op = "click" ->
                        safe_click(call.script, call.retries)
                   [] call.op = "send" ->
                        safe_send_keys(call.script, call.retries)
       IN  /\ lastCall' = Call(call.op, "locator", r)
           /\ element' = ElementAfter(call, r.attempts, element)
    /\ pc' = "returned"
    /\ UNCHANGED <<variant, file, hasCallback, call, botVars,
                   guiVars, appVars,
                   reg_no, password, step, df, total_rows, ledgerVars,
                   rowVars, driver, exc, endVars, steps, markerFound,
                   rowsAttempted, rowOps, rowResults, cbLog, quitCalls>>

SpecHandler == InitHandler /\ [][HandlerCall]_vars

\* ------------------------------------------------------------------------
\* bot.handle_document for one .xlsx document (bot.py 45-122).  The call
\* of process_file on the executor thread is followed row by row as far as
\* the bot can see it: the progress callbacks and the way it ends.
\* ------------------------------------------------------------------------
PROGRESS_PING_EVERY == 20

BotFiles ==
    {Unreadable}
    \cup {[readable |-> TRUE, columns |-> AllColumns,
           rows |-> [k \in 1..n |-> RowFull]] : n \in 0..MaxBotRows}

\* what one await context.bot.send_message(...) does
SendOutcomes == {"ok", "BadRequest"}

Message(kind, body) == [kind |-> kind, body |-> body]

\* int((current / total_rows) * 100) and the tick built from it
Tick(current, total) ==
    [pct |-> (current * 100) \div total, current |-> current, total |-> total]

\* seq[-n:]
LastN(seq, n) ==
    IF Len(seq) <= n THEN seq ELSE SubSeq(seq, Len(seq) - n + 1, Len(seq))

\* what no statement of handle_document assigns
botFrame == <<variant, file, hasCallback, call, element, appVars, guiVars,
              step, fpos,
              product_name, driver, steps, markerFound, rowsAttempted, rowOps,
              rowResults, cbLog, quitCalls, lastCall>>

InitBot ==
    /\ variant = "core"
    /\ file \in BotFiles
    /\ hasCallback = TRUE
    /\ reg_no = None
    /\ password = None
    /\ Aside
    /\ AppAtRest
    /\ pc = "bot_validate"
    /\ LocalsStart

\* lines 45-71: "File received", validate_excel, "Validation Failed" and
\* return, or "File Valid"
BotValidate ==
    /\ pc = "bot_validate"
    /\ LET v == validate_excel(file)
       IN  IF v.error # "None"
           THEN /\ sent' = sent \o <<Message("received", <<>>),
                                     Message("invalid", <<>>)>>
                /\ pc' = "bot_done"
                /\ UNCHANGED <<df, reg_no, password, total_rows>>
           ELSE /\ sent' = sent \o <<Message("received", <<>>),
                                     Message("valid", <<Len(v.df)>>)>>
                /\ df' = v.df
                /\ reg_no' = v.reg_no
                /\ password' = v.password
                /\ total_rows' = Len(v.df)
                /\ pc' = "bot_executor"
    /\ UNCHANGED <<botFrame, ledgerVars, idx, exc, endVars, progress_ticks>>

\* lines 93-96 and automation.py 203-225: process_file starts on the
\* executor thread and reaches its row loop, or raises before it
BotProcessFileStart ==
    /\ pc = "bot_executor"
    /\ \E fatal \in BOOLEAN :
          IF fatal
          THEN /\ outcome' = "raised"
               /\ raised' = Error("Exception", "process_file")
               /\ exc' = Error("Exception", "process_file")
               /\ pc' = "bot_except"
               /\ UNCHANGED ret
          ELSE /\ pc' = "bot_rows"
               /\ UNCHANGED <<exc, endVars>>
    /\ UNCHANGED <<botFrame, df, reg_no, password, total_rows, ledgerVars,
                   idx, botVars>>

\* one row of process_file (automation.py 229-249) and the call of
\* progress_callback it ends with (bot.py 79-90)
BotRow ==
    /\ pc = "bot_rows"
    /\ idx + 1 < total_rows
    /\ idx' = idx + 1
    /\ \E added \in BOOLEAN :
          /\ ~added => Len(error_list) < MaxBotErrors
          /\ IF added
             THEN success_count' = success_count + 1 /\ UNCHANGED error_list
             ELSE /\ error_list' = Append(error_list,
                                          [row |-> idx + 2,
                                           label |-> Str(df[idx + 2]["ProductName"]),
                                           cause |-> "WebDriverException"])
                  /\ UNCHANGED success_count
    /\ LET current == idx + 2
           ticks == Append(progress_ticks, Tick(current, total_rows))
       IN  /\ progress_ticks' = ticks
           /\ IF current % PROGRESS_PING_EVERY = 0 \/ current = total_rows
              THEN sent' = Append(sent,
                                  Message("progress",
                                          LastN(ticks, PROGRESS_PING_EVERY)))
              ELSE UNCHANGED sent
    /\ UNCHANGED <<botFrame, pc, df, reg_no, password, total_rows, exc,
                   endVars>>

\* process_file returns its ledger to the awaiting handler
BotProcessFileReturn ==
    /\ pc = "bot_rows"
    /\ idx + 1 = total_rows
    /\ outcome' = "returned"
    /\ ret' = [t |-> "ledger", success_count |-> success_count,
               error_list |-> error_list]
    /\ pc' = "bot_report"
    /\ UNCHANGED <<botFrame, df, reg_no, password, total_rows, ledgerVars,
                   idx, exc, raised, botVars>>

\* the report sent without awaiting the executor's future
BotReportNoAwait ==
    /\ pc \in {"bot_rows", "bot_report"}
    /\ sent' = Append(sent,
                      Message("complete", <<success_count, Len(error_list)>>))
    /\ pc' = "bot_done"
    /\ UNCHANGED <<botFrame, df, reg_no, password, total_rows, ledgerVars,
                   idx, exc, endVars, progress_ticks>>

\* lines 99-113: the report is built and sent, inside the try block
BotReport ==
    /\ pc = "bot_report"
    /\ \E o \in SendOutcomes :
          IF o = "ok"
          THEN /\ sent' = Append(sent,
                                 Message("complete",
                                         <<ret.success_count,
                                           Len(ret.error_list)>>))
               /\ pc' = "bot_done"
               /\ UNCHANGED exc
          ELSE /\ exc' = Error(o, "send_message")
               /\ pc' = "bot_except"
               /\ UNCHANGED sent
    /\ UNCHANGED <<botFrame, df, reg_no, password, total_rows, ledgerVars,
                   idx, endVars, progress_ticks>>

\* lines 115-122: except Exception as e: send "Automation Failed"
BotExcept ==
    /\ pc = "bot_except"
    /\ \E o \in SendOutcomes :
          IF o = "ok"
          THEN sent' = Append(sent, Message("failed", <<exc.type>>))
          ELSE UNCHANGED sent
    /\ pc' = "bot_done"
    /\ UNCHANGED <<botFrame, df, reg_no, password, total_rows, ledgerVars,
                   idx, exc, endVars, progress_ticks>>

NextBot ==
    \/ BotValidate
    \/ BotProcessFileStart
    \/ BotRow
    \/ BotProcessFileReturn
    \/ BotReport
    \/ BotExcept

SpecBot == InitBot /\ [][NextBot]_vars

\* ------------------------------------------------------------------------
\* The App window with its buttons: Upload, Test Login (check_upload),
\* Close Browser (close_browser) and Start Automation with the worker
\* threads it starts (main.py 469-638, 714-812).  One upload slot, index 0.
\* A callback runs to its end on the GUI thread; the workers run beside it.
\* ------------------------------------------------------------------------
\* d[i] = v
DictPut(d, i, v) ==
    [j \in DOMAIN d \cup {i} |-> IF j = i THEN v ELSE d[j]]

\* del d[i]
DictDel(d, i) == [j \in DOMAIN d \ {i} |-> d[j]]

\* what a call that may raise does
CallOutcomes == {"ok", "raise"}

\* driver.quit() has been called on the session d[i] refers to
QuitSession(ss, d, i) == [ss EXCEPT ![d[i]].state = "quit"]

InitGui ==
    /\ variant = "gui"
    /\ file = Unreadable
    /\ hasCallback = TRUE
    /\ reg_no = None
    /\ password = None
    /\ Aside
    /\ AppAtRest
    /\ pc = "idle"
    /\ LocalsStart

guiFrame == <<variant, file, hasCallback, call, element, botVars, pc, reg_no,
              password, runVars, file_paths, excel_credentials,
              credential_entries>>

\* check_upload(0): the two early returns, then the try block - launch,
\* self.drivers[index] = driver, page load and credential filling - and
\* its except clause with the clean-up
CheckUpload ==
    /\ pc = "idle"
    /\ IF 0 \notin file_paths
       THEN /\ status_label' = "Please upload File first."
            /\ UNCHANGED <<drivers, element_handlers, sessions>>
       ELSE IF ~Truthy(get_credentials.reg_no)
               \/ ~Truthy(get_credentials.password)
       THEN /\ status_label' = "Please ensure both are available"
            /\ UNCHANGED <<drivers, element_handlers, sessions>>
       ELSE \E launch \in CallOutcomes, page \in CallOutcomes :
              IF launch = "raise"
              THEN \* get_chrome_driver raised: nothing was stored
                   /\ status_label' = "Error opening browser"
                   /\ sessions' = (IF 0 \in DOMAIN drivers
                                   THEN QuitSession(sessions, drivers, 0)
                                   ELSE sessions)
                   /\ drivers' = DictDel(drivers, 0)
                   /\ element_handlers' = DictDel(element_handlers, 0)
              ELSE /\ Len(sessions) < MaxSessions
                   /\ LET new == Len(sessions) + 1
                          opened == Append(sessions,
                                           [index |-> 0, state |-> "open"])
                          stored == DictPut(drivers, 0, new)
                      IN  IF page = "ok"
                          THEN /\ sessions' = opened
                               /\ drivers' = stored
                               /\ element_handlers' =
                                     DictPut(element_handlers, 0, new)
                               /\ status_label' = "Browser ready for testing."
                          ELSE /\ sessions' = QuitSession(opened, stored, 0)
                               /\ drivers' = DictDel(stored, 0)
                               /\ element_handlers' =
                                     DictDel(element_handlers, 0)
                               /\ status_label' = "Error opening browser"
    /\ UNCHANGED <<guiFrame, workers>>

\* close_browser(0)
CloseBrowser ==
    /\ pc = "idle"
    /\ IF 0 \in DOMAIN drivers
       THEN \E quit \in CallOutcomes :
              /\ sessions' = QuitSession(sessions, drivers, 0)
              /\ IF quit = "ok"
                 THEN /\ drivers' = DictDel(drivers, 0)
                      /\ element_handlers' = DictDel(element_handlers, 0)
                      /\ status_label' = "Browser closed."
                 ELSE /\ status_label' = "Error closing browser"
                      /\ UNCHANGED <<drivers, element_handlers>>
       ELSE /\ status_label' = "No open browser."
            /\ UNCHANGED <<drivers, element_handlers, sessions>>
    /\ UNCHANGED <<guiFrame, workers>>

\* the window with Upload, the entries and the two test-login buttons
NextGui ==
    \/ UploadFile
    \/ EditEntry
    \/ CheckUpload
    \/ CloseBrowser

SpecGui == InitGui /\ [][NextGui]_vars

\* a process_files thread: at the head of its for loop, inside
\* self.process_file for index i, or past the loop
NewWorker == [at |-> "for", i |-> -1, seen |-> {}]

\* start_automation: the two early returns, then
\* threading.Thread(target=process_files, daemon=True).start()
start_automation ==
    /\ pc = "idle"
    /\ IF file_paths = {}
       THEN /\ status_label' = "Please upload Excel files."
            /\ UNCHANGED workers
       ELSE IF ~Truthy(get_credentials.reg_no)
               \/ ~Truthy(get_credentials.password)
       THEN /\ status_label' = "Please complete credentials"
            /\ UNCHANGED workers
       ELSE /\ Len(workers) < MaxWorkers
            /\ status_label' = "Automation in progress..."
            /\ workers' = Append(workers, NewWorker)
    /\ UNCHANGED <<guiFrame, drivers, element_handlers, sessions>>

\* process_files, one step of "for i, excel_file in
\* self.file_paths.items()": the next index is taken and
\* self.process_file is entered, or the loop ends
process_files_next(w) ==
    /\ workers[w].at = "for"
    /\ LET left == file_paths \ workers[w].seen
       IN  IF left # {}
           THEN LET i == CHOOSE j \in left : \A k \in left : j <= k
                IN  /\ workers' = [workers EXCEPT
                                      ![w] = [at |-> "file", i |-> i,
                                              seen |-> @.seen \cup {i}]]
                    /\ status_label' = "Processing file"
           ELSE /\ workers' = [workers EXCEPT ![w].at = "done"]
                /\ status_label' = "All files processing completed!"
    /\ UNCHANGED <<guiFrame, drivers, element_handlers, sessions>>

\* self.process_file(excel_file, ...) of the worker comes back, with or
\* without an exception
process_files_done(w) ==
    /\ workers[w].at = "file"
    /\ \E o \in CallOutcomes :
          status_label' = (IF o = "ok" THEN "File processed successfully!"
                                      ELSE "Error processing file")
    /\ workers' = [workers EXCEPT ![w].at = "for"]
    /\ UNCHANGED <<guiFrame, drivers, element_handlers, sessions>>

process_files ==
    \E w \in 1..Len(workers) : process_files_next(w) \/ process_files_done(w)

\* the window with Upload, the entries, Start Automation and the workers;
\* the test-login buttons work on dicts no worker reads
NextRuns ==
    \/ UploadFile
    \/ EditEntry
    \/ start_automation
    \/ process_files

SpecRuns == InitGui /\ [][NextRuns]_vars

\* ------------------------------------------------------------------------
\* Observations shared by the properties
\* ------------------------------------------------------------------------
Core == variant = "core"

Ended == pc = "done"

\* the run left the row loop, or never entered it
LeftLoop == pc \in {"quit", "done"}

FailedResults == SelectSeq(rowResults, LAMBDA r : ~r.ok)

OkResults == SelectSeq(rowResults, LAMBDA r : r.ok)

\* the rows for which the progress sink was updated
ReportedRows == {cbLog[k].current : k \in 1..Len(cbLog)}

\* the last primitive call raised to the orchestrator
LastCallRaised(op, loc) ==
    lastCall.op = op /\ lastCall.loc = loc /\ lastCall.res = "raise"

\* ------------------------------------------------------------------------
\* C1  Partial-failure isolation: a row whose field write or add-click
\* raises an Exception never ends the row loop.  While any row has failed,
\* the run leaves the loop without an exception in flight only after every
\* later row has been attempted and has got its own result.
\* ------------------------------------------------------------------------
C1_PartialFailureIsolation ==
    \A k \in 1..Len(rowResults) :
        (~rowResults[k].ok /\ LeftLoop /\ exc = NoExc)
            => \A j \in (rowResults[k].row + 1)..Len(df) :
                  /\ j \in Range(rowsAttempted)
                  /\ \E m \in 1..Len(rowResults) : rowResults[m].row = j

\* row 1 of 2 failed and row 2 was still submitted
C1_Witness ==
    /\ Core /\ Ended /\ outcome = "returned"
    /\ rowResults = <<[row |-> 1, ok |-> FALSE], [row |-> 2, ok |-> TRUE]>>

C4_TeardownErrorsSwallowed ==
    (Ended /\ quitCalls = 1)
        => IF exc = NoExc THEN outcome = "returned"
           ELSE outcome = "raised" /\ raised = exc

\* ------------------------------------------------------------------------
\* C5  Ledger and fatal error are mutually exclusive outcomes of
\* automation.process_file, and every fatal condition (validation failure,
\* launch failure, login form not found, login interaction failure,
\* post-login marker not found) ends the run raising, with no ledger.
\* ------------------------------------------------------------------------
ValidationFailed == validate_excel(file).error # "None"

LaunchFailed == Ended /\ ~ValidationFailed /\ driver = "none"

LoginFailed ==
    \/ LastCallRaised("find", "loginForm")
    \/ LastCallRaised("send", "RegistrationNo")
    \/ LastCallRaised("send", "Password")
    \/ LastCallRaised("click", "login_button")
    \/ LastCallRaised("find", "ProductCIBCode")

C5_LedgerXorFatal ==
    Core =>
        /\ (ret # NoRet) = (outcome = "returned")
        /\ (raised # NoExc) = (outcome = "raised")
        /\ (Ended /\ (ValidationFailed \/ LaunchFailed \/ LoginFailed))
              => (outcome = "raised" /\ ret = NoRet)
        /\ (Ended => outcome # "running")

\* the password could not be typed: the run raised and returned nothing
C5_Witness ==
    /\ Core /\ Ended /\ LastCallRaised("send", "Password")
    /\ outcome = "raised" /\ raised.at = "Password"

\* ------------------------------------------------------------------------
\* C6  Fatal short-circuit: when the post-login marker (ID ProductCIBCode)
\* is not found, the run is on its way out with that error, and no row's
\* mapping was evaluated, no row write or add-click was issued and the
\* progress callback was never invoked.  More generally nothing of the row
\* loop happens before the marker is found.
\* ------------------------------------------------------------------------
NoRowWork ==
    /\ rowsAttempted = <<>>
    /\ rowOps = <<>>
    /\ rowResults = <<>>
    /\ cbLog = <<>>

C6_FatalShortCircuit ==
    /\ ~markerFound => NoRowWork
    /\ LastCallRaised("find", "ProductCIBCode")
          => /\ LeftLoop
             /\ exc = Error(lastCall.err, "ProductCIBCode")
             /\ Ended => (outcome = "raised" /\ (Core => raised = exc))
             /\ NoRowWork

C6_Witness ==
    /\ Core /\ hasCallback /\ Ended /\ Len(df) = 2
    /\ LastCallRaised("find", "ProductCIBCode")
    /\ raised = Error("TimeoutException", "ProductCIBCode")

\* ------------------------------------------------------------------------
\* C7  Progress callback count, as amended: in a run of
\* automation.process_file with a callback, the callback is invoked after
\* every row attempt, its k-th invocation has first argument k and second
\* argument total_rows, and a run that returns a ledger has invoked it
\* exactly total_rows times; a run that ends with a fatal error before the
\* row loop has invoked it zero times.
\* ------------------------------------------------------------------------
C7_ProgressPerRow ==
    (Core /\ hasCallback) =>
        /\ \A k \in 1..Len(cbLog) :
              cbLog[k].current = k /\ cbLog[k].total = total_rows
        /\ Len(cbLog) = (IF pc = "progress" THEN Len(rowResults) - 1
                         ELSE Len(rowResults))
        /\ outcome = "returned" => Len(cbLog) = total_rows
        /\ (Ended /\ ~markerFound) => cbLog = <<>>

C7_Witness ==
    /\ Core /\ hasCallback /\ outcome = "returned"
    /\ total_rows = 2 /\ Len(cbLog) = 2

\* C7 as stated: whenever a run with a callback has ended, the callback was
\* called exactly total_rows times, with 1, 2, ..., total_rows
C7_Original ==
    (Core /\ hasCallback /\ Ended)
        => /\ Len(cbLog) = total_rows
           /\ \A k \in 1..Len(cbLog) :
                 cbLog[k].current = k /\ cbLog[k].total = total_rows

\* ------------------------------------------------------------------------
\* C8  Progress is reported unconditionally in every variant: every row
\* that has got its result, success or failure, has its progress update (in
\* automation.process_file the update of the row that has just finished is
\* the next step).
\* ------------------------------------------------------------------------
C8_ProgressUnconditional ==
    hasCallback =>
        \A k \in 1..Len(rowResults) :
            \/ rowResults[k].row \in ReportedRows
            \/ Core /\ pc = "progress" /\ k = Len(rowResults)

\* ------------------------------------------------------------------------
\* C9  Row-order preservation in automation.process_file: error_list is in
\* strictly increasing row order, the callbacks come in that same order, and
\* the callback of row i comes after the outcome of row i is recorded and
\* before anything is done for row i + 1.
\* ------------------------------------------------------------------------
C9_RowOrder ==
    Core =>
        /\ \A j, k \in 1..Len(error_list) :
              j < k => error_list[j].row < error_list[k].row
        /\ \A j, k \in 1..Len(cbLog) :
              j < k => cbLog[j].current < cbLog[k].current
        /\ \A k \in 1..Len(cbLog) :
              /\ \E m \in 1..Len(rowResults) : rowResults[m].row = cbLog[k].current
              /\ success_count + Len(error_list) >= cbLog[k].current
        /\ hasCallback =>
              \A k \in 1..Len(rowsAttempted) :
                  rowsAttempted[k] > 1 => (rowsAttempted[k] - 1) \in ReportedRows

C9_Witness ==
    /\ Core /\ hasCallback /\ outcome = "returned"
    /\ Len(error_list) = 2 /\ Len(cbLog) = 2

\* ------------------------------------------------------------------------
\* C10  No row outcome is lost in automation.process_file: every attempted
\* row gets exactly one outcome.  success_count counts exactly the rows all
\* of whose non-missing field writes and whose add-click succeeded; every
\* other row has exactly one error_list entry with its 1-based index and
\* its label.
\* ------------------------------------------------------------------------
\* a cell that is missing, empty, or the text nan in any letter case
IsMissing(val) ==
    \/ val.t \in {"nan", "none"}
    \/ Str(val) = <<>>
    \/ Lower(Str(val)) = <<"n", "a", "n">>

\* the web fields of the row's non-missing cells, in table order
ExpectedWrites(row) ==
    LET kept == SelectSeq(FIELD_MAPPINGS, LAMBDA m : ~IsMissing(row[m[2]]))
    IN  [k \in 1..Len(kept) |-> kept[k][1]]

IssuedLocs == [k \in 1..Len(rowOps) |-> rowOps[k].loc]

C10_NoOutcomeLost ==
    Core =>
        /\ \A k \in 1..Len(rowResults) : rowResults[k].row = k
        /\ Len(rowResults) =
              (IF pc \in {"fields", "click"} THEN Len(rowsAttempted) - 1
               ELSE Len(rowsAttempted))
        /\ success_count = Len(OkResults)
        /\ Len(error_list) = Len(FailedResults)
        /\ \A k \in 1..Len(error_list) :
              /\ error_list[k].row = FailedResults[k].row
              /\ error_list[k].label = Str(df[error_list[k].row]["ProductName"])
        /\ pc = "progress" =>
              (rowResults[Len(rowResults)].ok
                  = /\ IssuedLocs = ExpectedWrites(df[idx + 1]) \o <<"add_btn">>
                    /\ lastCall.res = "ok")

\* of two rows the first failed and is in the ledger, the second was added
C10_Witness ==
    /\ Core /\ outcome = "returned" /\ ret.success_count = 1
    /\ Len(ret.error_list) = 1
    /\ ret.error_list[1].row = 1
    /\ ret.error_list[1].cause = "WebDriverException"

\* ------------------------------------------------------------------------
\* C11  Credential extraction: when the table has a row in which both
\* RegistrationNo and Password are non-empty, validate_excel returns as
\* (reg_no, password) the two values of the first such row.
\* ------------------------------------------------------------------------
BothRows(d) ==
    {k \in 1..Len(d) : /\ ~IsMissing(d[k]["RegistrationNo"])
                        /\ ~IsMissing(d[k]["Password"])}

FirstBoth(d) == CHOOSE k \in BothRows(d) : \A j \in BothRows(d) : k <= j

C11_CredentialsOfFirstFullRow ==
    (Core /\ pc = "launch" /\ BothRows(df) # {})
        => /\ reg_no = PyStr(Strip(Str(df[FirstBoth(df)]["RegistrationNo"])))
           /\ password = PyStr(Strip(Str(df[FirstBoth(df)]["Password"])))

\* ------------------------------------------------------------------------
\* C12  Missing-value skip in automation.process_file: a target field whose
\* source cell is missing, empty or the text nan in any letter case gets no
\* safe_send_keys call on that row; every other target field the field loop
\* has passed got exactly one call, carrying the text of its cell.  A row
\* that reaches the add-click has written exactly its present fields; a row
\* that failed has written the present fields up to the one that failed.
\* ------------------------------------------------------------------------
RowSends == SelectSeq(rowOps, LAMBDA o : o.op = "send")

\* the present cells among the first n entries of the mapping table
PresentAmong(row, n) ==
    SelectSeq(SubSeq(FIELD_MAPPINGS, 1, n), LAMBDA m : ~IsMissing(row[m[2]]))

IsPrefix(a, b) == Len(a) <= Len(b) /\ a = SubSeq(b, 1, Len(a))

C12_MissingValueSkip ==
    (Core /\ pc \in {"fields", "click", "progress"}) =>
        LET row == df[idx + 1]
            all == PresentAmong(row, Len(FIELD_MAPPINGS))
            due == IF pc = "fields" THEN PresentAmong(row, fpos - 1) ELSE all
        IN  /\ \A k \in 1..Len(RowSends) :
                  /\ k <= Len(all)
                  /\ RowSends[k].loc = all[k][1]
                  /\ ~IsMissing(row[all[k][2]])
                  /\ RowSends[k].text = Str(row[all[k][2]])
            /\ pc \in {"fields", "click"} => Len(RowSends) = Len(due)
            /\ pc = "progress" =>
                  \/ Len(RowSends) = Len(all)
                  \/ lastCall.op = "send" /\ lastCall.res = "raise"

\* a row with a missing name, an emptied cell and the text nan in two
\* letter cases reached the add-click with three writes
C12_Witness ==
    /\ Core /\ pc = "click"
    /\ IsMissing(df[idx + 1]["ProductName"])
    /\ df[idx + 1]["ProductCIBCode"] = PyStr(<<"N", "a", "N">>)
    /\ df[idx + 1]["ProductRegDate"] = PyStr(<<>>)
    /\ df[idx + 1]["PrincipalCerificateNo"] = PyStr(<<"n", "a", "n">>)
    /\ IssuedLocs = <<"ProductImpterManurName", "PrincipleCertIssueDate",
                      "PrincipleCertValidUpto">>

\* ------------------------------------------------------------------------
\* C13  Row label: the label automation.process_file puts in the failure
\* entry and in the progress callback of a row is the row's ProductName
\* value when that value is present, and "Row i" (i the 1-based index of
\* the row) when the value is missing or empty.
\* ------------------------------------------------------------------------
Absent(val) == val.t \in {"nan", "none"} \/ Str(val) = <<>>

ClaimedLabel(i) ==
    IF Absent(df[i]["ProductName"]) THEN <<"R", "o", "w", " ">> \o Digits(i)
    ELSE Str(df[i]["ProductName"])

C13_RowLabel ==
    Core =>
        /\ \A k \in 1..Len(error_list) :
              error_list[k].label = ClaimedLabel(error_list[k].row)
        /\ \A k \in 1..Len(cbLog) :
              cbLog[k].label = ClaimedLabel(cbLog[k].current)

\* ------------------------------------------------------------------------
\* C14  Session launch failure is fatal: when get_chrome_driver raises,
\* automation.process_file ends at once with that error handed to the
\* caller; it has issued no driver operation, attempted no row, made no
\* progress callback and no teardown call, and the launch is not attempted
\* again (the failed launch is the last step of the run).
\* ------------------------------------------------------------------------
LaunchError == Error("Exception", "get_chrome_driver")

C14_LaunchFailureFatal ==
    /\ []((Core /\ raised = LaunchError) =>
            /\ Ended /\ outcome = "raised" /\ ret = NoRet
            /\ driver = "none" /\ steps = <<>> /\ quitCalls = 0
            /\ NoRowWork /\ ledgerVars = <<0, <<>>>>)
    /\ [][(Core /\ pc = "launch" /\ driver' = "none") =>
            (pc' = "done" /\ raised' = LaunchError)]_vars
    /\ [][~(Core /\ raised = LaunchError)]_vars

\* a valid workbook of two rows whose session could not be launched
C14_Witness ==
    /\ Core /\ Ended /\ raised = LaunchError
    /\ Len(df) = 2 /\ hasCallback /\ cbLog = <<>> /\ rowsAttempted = <<>>

\* ------------------------------------------------------------------------
\* C15  Credential invariant: whenever the browser session of a run is
\* open, the registration number and the password of that run are both
\* non-empty.
\* ------------------------------------------------------------------------
C15_CredentialsBeforeSession ==
    driver = "open" => (Truthy(reg_no) /\ Truthy(password))

\* ------------------------------------------------------------------------
\* C16  wait_for_page_load is advisory: whatever the page and the driver
\* do, the call returns True or False and never raises, so no run is ever
\* ended by an exception coming out of wait_for_page_load.
\* ------------------------------------------------------------------------
C16_WaitNeverRaises ==
    /\ exc.at # "wait_for_page_load"
    /\ raised.at # "wait_for_page_load"

\* ------------------------------------------------------------------------
\* C17  safe_find_element makes at most `retries` attempts and pauses once
\* (one second) between two attempts; it returns the element at the first
\* attempt that finds it; an attempt that times out or does not find the
\* element is retried, and the lookup error is raised only by attempt
\* number `retries`; with retries >= 1 a lookup that never succeeds ends
\* raising the error of its last attempt.  Every call ends.
\* ------------------------------------------------------------------------
FindReturned == pc = "returned" /\ lastCall.op = "find"

\* the 1-based attempts, among the first n, that find the element
FoundAt(script, n) == {k \in 1..n : AttemptOutcome(script, k - 1) = "ok"}

\* every attempt among the first n finds the element or fails the lookup
LookupOnly(script, n) ==
    \A k \in 1..n : AttemptOutcome(script, k - 1) \in {"ok"} \cup FindAbsorbed

C17_FindRetries ==
    FindReturned =>
        LET n == call.retries
            a == lastCall.attempts
        IN  /\ a <= n
            /\ lastCall.sleeps = (IF a = 0 THEN 0 ELSE a - 1)
            /\ lastCall.res = "ok" =>
                  /\ a \in FoundAt(call.script, n)
                  /\ \A k \in 1..(a - 1) :
                        AttemptOutcome(call.script, k - 1) \in FindAbsorbed
            /\ (lastCall.res = "raise" /\ lastCall.err \in FindAbsorbed) =>
                  /\ a = n
                  /\ lastCall.err = AttemptOutcome(call.script, n - 1)
            /\ LookupOnly(call.script, n) =>
                  IF FoundAt(call.script, n) # {}
                  THEN /\ lastCall.res = "ok"
                       /\ \A k \in FoundAt(call.script, n) : a <= k
                  ELSE n >= 1 => (lastCall.res = "raise" /\ a = n)

\* the default three attempts all failed the lookup: two pauses, then the
\* error of the third attempt
C17_Witness ==
    /\ FindReturned
    /\ call.retries = default_retries
    /\ call.script = <<"TimeoutException", "NoSuchElementException",
                       "TimeoutException">>
    /\ lastCall.res = "raise" /\ lastCall.err = "TimeoutException"
    /\ lastCall.attempts = 3 /\ lastCall.sleeps = 2

\* ------------------------------------------------------------------------
\* C18  Single forward path of automation.process_file: the driver
\* operations outside the row loop are issued in the order session open,
\* navigate, page-ready wait, find login form, type registration number,
\* type password, click login, page-ready wait, find post-login marker;
\* the rows are entered in the order 1, 2, ... and only after all of these
\* and with the marker found; teardown comes last.  Every step of a run
\* moves strictly forward on this path, so nothing is repeated or revisited.
\* ------------------------------------------------------------------------
ForwardPath ==
    <<[op |-> "launch", loc |-> "none"]>> \o LoginSequence

\* position of the run on the path: phase, login statement, row, place in
\* the row body, field
PathRank ==
    CASE pc = "validate" -> 0
      [] pc = "launch" -> 1
      [] pc = "login" -> 10 + step
      [] pc = "loop" -> 100 + (idx + 1) * 100 + 90
      [] pc = "fields" -> 100 + (idx + 1) * 100 + fpos
      [] pc = "click" -> 100 + (idx + 1) * 100 + 50
      [] pc = "progress" -> 100 + (idx + 1) * 100 + 60
      [] pc = "quit" -> 100000
      [] pc = "done" -> 100001

C18_SingleForwardPath ==
    /\ [](Core =>
            /\ Len(steps) <= Len(ForwardPath)
            /\ \A k \in 1..Len(steps) :
                  /\ steps[k].op = ForwardPath[k].op
                  /\ steps[k].loc = ForwardPath[k].loc
            /\ \A k \in 1..Len(rowsAttempted) : rowsAttempted[k] = k
            /\ (rowsAttempted # <<>> \/ rowOps # <<>>) =>
                  (markerFound /\ Len(steps) = Len(ForwardPath))
            /\ quitCalls <= 1
            /\ quitCalls = 1 => Ended)
    /\ [][Core => /\ PathRank' > PathRank
                  /\ IsPrefix(steps, steps')
                  /\ IsPrefix(rowsAttempted, rowsAttempted')
                  /\ quitCalls' >= quitCalls]_vars

\* a run of two rows went down the whole path and returned
C18_Witness ==
    /\ Core /\ Ended /\ outcome = "returned"
    /\ Len(steps) = Len(ForwardPath)
    /\ rowsAttempted = <<1, 2>>
    /\ quitCalls = 1

\* ------------------------------------------------------------------------
\* C19  Fill order, in every orchestrator variant: the field writes of a
\* row are issued in the order ProductName, ProductCIBCode, ProductRegDate,
\* ProductImpterManurName, PrincipleCertNo, PrincipleCertIssueDate,
\* PrincipleCertValidUpto, ProductValidityDate (skipped fields left out),
\* and the add-click comes after the last field write of the row.
\* ------------------------------------------------------------------------
StaticOrder ==
    <<"ProductName", "ProductCIBCode", "ProductRegDate",
      "ProductImpterManurName", "PrincipleCertNo", "PrincipleCertIssueDate",
      "PrincipleCertValidUpto", "ProductValidityDate">>

OrderPos(loc) == CHOOSE k \in 1..Len(StaticOrder) : StaticOrder[k] = loc

C19_FillOrder ==
    \A j, k \in 1..Len(rowOps) :
        j < k =>
            /\ rowOps[j].op = "send"
            /\ rowOps[j].loc \in Range(StaticOrder)
            /\ IF rowOps[k].op = "send"
               THEN OrderPos(rowOps[j].loc) < OrderPos(rowOps[k].loc)
               ELSE rowOps[k].loc = "add_btn" /\ k = Len(rowOps)

\* ------------------------------------------------------------------------
\* C20  Fail-fast per row in automation.process_file: the field write that
\* raises is the last operation issued for its row (no later field, no
\* add-click); the row gets one failure entry, carrying that exception; and
\* the next operation on the form is the first operation of the next row
\* (its first present field, or its add-click when it has none).
\* ------------------------------------------------------------------------
WriteFailed ==
    pc = "progress" /\ lastCall.op = "send" /\ lastCall.res = "raise"

\* the current row has its result and the result is a failure
RowFailed ==
    /\ rowResults # <<>>
    /\ rowResults[Len(rowResults)] = [row |-> idx + 1, ok |-> FALSE]

C20_FailFastPerRow ==
    /\ [](Core =>
            /\ WriteFailed =>
                  /\ rowOps # <<>>
                  /\ rowOps[Len(rowOps)].op = "send"
                  /\ rowOps[Len(rowOps)].loc = lastCall.loc
                  /\ \A k \in 1..Len(rowOps) : rowOps[k].op = "send"
                  /\ RowFailed
                  /\ error_list[Len(error_list)] =
                        [row |-> idx + 1, label |-> product_name,
                         cause |-> lastCall.err]
                  /\ \A k \in 1..(Len(error_list) - 1) :
                        error_list[k].row # idx + 1
            /\ rowOps # <<>> =>
                  rowOps[1].loc =
                      (ExpectedWrites(df[idx + 1]) \o <<"add_btn">>)[1])
    /\ [][(Core /\ pc = "fields" /\ rowOps' # rowOps
              /\ lastCall'.res = "raise") =>
            /\ pc' = "progress"
            /\ Len(error_list') = Len(error_list) + 1]_vars
    /\ [][(Core /\ RowFailed /\ rowOps' # rowOps) =>
            (rowOps' = <<>> /\ idx' = idx + 1 /\ pc' = "fields")]_vars

\* the first of eight due writes of row 1 raised: one operation issued, one
\* failure entry, a second row still to come
C20_Witness ==
    /\ Core /\ WriteFailed /\ idx = 0 /\ Len(df) = 2
    /\ Len(ExpectedWrites(df[1])) = 8
    /\ Len(rowOps) = 1
    /\ error_list = <<[row |-> 1, label |-> product_name,
                       cause |-> "WebDriverException"]>>

\* ------------------------------------------------------------------------
\* C21  safe_click makes at most `retries` wait-and-click attempts and
\* pauses once after every failed attempt but the last; an attempt that
\* meets a stale reference, a non-interactable element or a timeout is
\* retried; the call returns True at the first attempt whose click did not
\* raise, with exactly one such click made; when all `retries` attempts
\* (retries >= 1) failed transiently it raises the error of the last one.
\* ------------------------------------------------------------------------
ClickReturned == pc = "returned" /\ lastCall.op = "click"

\* every attempt among the first n succeeds or fails transiently
TransientOnly(script, n) ==
    \A k \in 1..n : AttemptOutcome(script, k - 1) \in {"ok"} \cup ClickAbsorbed

C21_ClickRetries ==
    ClickReturned =>
        LET n == call.retries
            a == lastCall.attempts
        IN  /\ a <= n
            /\ lastCall.sleeps = (IF a = 0 THEN 0 ELSE a - 1)
            /\ element.clicks <= a
            /\ element.clicked = (IF lastCall.res = "ok" THEN 1 ELSE 0)
            /\ lastCall.res = "ok" =>
                  /\ a \in FoundAt(call.script, n)
                  /\ \A k \in 1..(a - 1) :
                        AttemptOutcome(call.script, k - 1) \in ClickAbsorbed
            /\ (lastCall.res = "raise" /\ lastCall.err \in ClickAbsorbed) =>
                  /\ a = n
                  /\ lastCall.err = AttemptOutcome(call.script, n - 1)
            /\ TransientOnly(call.script, n) =>
                  IF FoundAt(call.script, n) # {}
                  THEN /\ lastCall.res = "ok"
                       /\ \A k \in FoundAt(call.script, n) : a <= k
                  ELSE n >= 1 => (lastCall.res = "raise" /\ a = n)

\* two clicks raised, the third did not: two pauses, True returned
C21_Witness ==
    /\ ClickReturned
    /\ call.retries = default_retries
    /\ call.fault = "click"
    /\ call.script = <<"StaleElementReferenceException",
                       "ElementNotInteractableException", "ok">>
    /\ lastCall.res = "ok" /\ lastCall.attempts = 3 /\ lastCall.sleeps = 2
    /\ element.clicks = 3 /\ element.clicked = 1

\* ------------------------------------------------------------------------
\* C22  Only the listed transient failures are absorbed: in
\* safe_find_element (timeout, no-such-element) and in safe_click and
\* safe_send_keys (stale reference, not interactable, timeout) the first
\* attempt that meets any other exception ends the call - that exception
\* goes to the caller, no further attempt is made and no pause follows it.
\* ------------------------------------------------------------------------
Absorbed(op) == IF op = "find" THEN FindAbsorbed ELSE ClickAbsorbed

\* attempt k is reached and meets an exception outside the absorbed class
ForeignAt(k) ==
    /\ AttemptOutcome(call.script, k - 1) \notin {"ok"} \cup Absorbed(call.op)
    /\ \A j \in 1..(k - 1) :
          AttemptOutcome(call.script, j - 1) \in Absorbed(call.op)

C22_OnlyListedAbsorbed ==
    pc = "returned" =>
        /\ \A k \in 1..call.retries :
              ForeignAt(k) =>
                  /\ lastCall.res = "raise"
                  /\ lastCall.err = AttemptOutcome(call.script, k - 1)
                  /\ lastCall.attempts = k
                  /\ lastCall.sleeps = k - 1
        /\ (lastCall.res = "raise" /\ lastCall.err \notin Absorbed(call.op))
              => ForeignAt(lastCall.attempts)
        /\ (lastCall.res = "raise" /\ lastCall.err \in Absorbed(call.op))
              => lastCall.attempts = call.retries

\* the second attempt of a safe_send_keys met a WebDriverException: it was
\* raised at once, after the one pause that followed the first attempt
C22_Witness ==
    /\ pc = "returned" /\ call.op = "send" /\ call.retries = 3
    /\ call.script = <<"TimeoutException", "WebDriverException", "ok">>
    /\ lastCall.res = "raise" /\ lastCall.err = "WebDriverException"
    /\ lastCall.attempts = 2 /\ lastCall.sleeps = 1

\* ------------------------------------------------------------------------
\* C23  safe_send_keys with clear_first true clears the element before it
\* types, on every attempt that gets to type, retries included: after a
\* call that returns True the element holds exactly str(text), whatever the
\* attempts before did.  With clear_first false no clear is ever issued.
\* ------------------------------------------------------------------------
SendReturned == pc = "returned" /\ lastCall.op = "send"

C23_ClearBeforeType ==
    SendReturned =>
        IF call.clear_first
        THEN /\ element.keys <= element.clears
             /\ call.fault \in {"keys", "partial"} =>
                   element.clears = lastCall.attempts
             /\ lastCall.res = "ok" => element.text = Str(call.text)
        ELSE /\ element.clears = 0
             /\ element.keys <= lastCall.attempts

\* two attempts typed part of the text and raised, the third typed it all:
\* three clears, and the element holds "12"
C23_Witness ==
    /\ SendReturned /\ call.clear_first /\ call.fault = "partial"
    /\ call.text = PyNum(12) /\ call.retries = 3
    /\ call.script = <<"StaleElementReferenceException",
                       "StaleElementReferenceException", "ok">>
    /\ lastCall.res = "ok"
    /\ element.clears = 3 /\ element.keys = 3
    /\ element.text = <<"1", "2">>

\* ------------------------------------------------------------------------
\* C24  Transient failures are invisible to automation.process_file unless
\* the retries are exhausted: a primitive call that succeeds, after
\* however many failed attempts, changes neither the ledger's failures nor
\* the course of the run, and a row whose add-click succeeded is a success
\* with no failure entry; a primitive call that raises inside the row loop
\* gives a row failure and the loop goes on, one that raises before the
\* row loop is fatal.
\* ------------------------------------------------------------------------
\* this step issued a primitive call (find, send or click)
CallIssued ==
    \/ Len(rowOps') > Len(rowOps)
    \/ /\ Len(steps') > Len(steps)
       /\ steps'[Len(steps')].op \in {"find", "send", "click"}

C24_TransientsInvisible ==
    /\ [](Core =>
            /\ (pc = "progress" /\ lastCall.res = "ok") =>
                  /\ lastCall.op = "click"
                  /\ rowResults[Len(rowResults)] = [row |-> idx + 1, ok |-> TRUE]
                  /\ \A k \in 1..Len(error_list) : error_list[k].row # idx + 1
                  /\ success_count = Len(OkResults)
            /\ (pc = "progress" /\ lastCall.res = "raise") =>
                  /\ RowFailed
                  /\ exc = NoExc
                  /\ error_list[Len(error_list)].cause = lastCall.err
            /\ (lastCall.res = "raise" /\ rowsAttempted = <<>>) =>
                  /\ NoRowWork
                  /\ IF Ended THEN outcome = "raised"
                     ELSE pc = "quit" /\ exc.type = lastCall.err)
    /\ [][(Core /\ CallIssued /\ lastCall'.res = "ok") =>
            /\ error_list' = error_list
            /\ exc' = NoExc
            /\ pc' \notin {"quit", "done"}]_vars

\* the add-click of row 1 timed out twice and succeeded at the third
\* attempt: the row is a success and the ledger has no failure
C24_Witness ==
    /\ Core /\ pc = "progress" /\ idx = 0
    /\ lastCall.op = "click" /\ lastCall.res = "ok"
    /\ lastCall.attempts = 3 /\ lastCall.sleeps = 2
    /\ success_count = 1 /\ error_list = <<>>

\* ------------------------------------------------------------------------
\* C25  The ledger of automation.process_file is append-only: no step of a
\* run decreases success_count, and every step leaves error_list as it was
\* or adds one entry at its end; the entries already there are never
\* removed, reordered or changed.
\* ------------------------------------------------------------------------
C25_LedgerAppendOnly ==
    [][Core => /\ success_count' \in {success_count, success_count + 1}
               /\ \/ error_list' = error_list
                  \/ /\ Len(error_list') = Len(error_list) + 1
                     /\ IsPrefix(error_list, error_list')
               /\ Ended => UNCHANGED ledgerVars]_vars

\* two rows failed one after the other: the entry of row 1 is still the
\* first entry after the entry of row 2 was added
C25_Witness ==
    /\ Core /\ Len(error_list) = 2 /\ success_count = 0
    /\ error_list[1].row = 1 /\ error_list[2].row = 2
    /\ error_list[1].cause = "TimeoutException"
    /\ error_list[2].cause = "WebDriverException"

\* ------------------------------------------------------------------------
\* C26  Page-ready waits are best-effort in automation.process_file: when
\* wait_for_page_load returns False after the navigation or after the login
\* click, the run goes on to the next statement (the lookup of the login
\* form, respectively of the post-login marker) with nothing else changed,
\* so what happens to the run is decided by the later steps alone.
\* ------------------------------------------------------------------------
\* this step is a wait_for_page_load call that returned False
WaitTimedOut ==
    /\ AtLogin("wait")
    /\ Len(steps') > Len(steps)
    /\ lastCall'.op = "wait" /\ lastCall'.res = "False"

C26_WaitBestEffort ==
    [][(Core /\ WaitTimedOut) =>
          /\ pc' = "login"
          /\ step' = step + 1
          /\ LoginSequence[step'].op = "find"
          /\ LoginSequence[step'].loc =
                (IF step = 2 THEN "loginForm" ELSE "ProductCIBCode")
          /\ exc' = NoExc
          /\ UNCHANGED <<endVars, ledgerVars, driver, markerFound, rowVars,
                         rowsAttempted, rowOps, rowResults, cbLog, quitCalls,
                         df, reg_no, password, total_rows>>]_vars

\* the wait after the login click timed out and the run stands at the
\* lookup of the post-login marker
C26_Witness ==
    /\ Core /\ pc = "login" /\ step = 8
    /\ lastCall.op = "wait" /\ lastCall.res = "False"
    /\ driver = "open" /\ exc = NoExc /\ outcome = "running"

\* ------------------------------------------------------------------------
\* C27  A call of safe_find_element, safe_click or safe_send_keys that
\* returns normally has performed its operation: for every value of
\* retries, 0 included, the call ends either returning after a successful
\* attempt or raising.
\* ------------------------------------------------------------------------
C27_ReturnMeansDone ==
    pc = "returned" =>
        \/ lastCall.res = "raise"
        \/ /\ lastCall.res = "ok"
           /\ lastCall.attempts >= 1
           /\ AttemptOutcome(call.script, lastCall.attempts - 1) = "ok"

\* ------------------------------------------------------------------------
\* C28  An exception raised by the progress callback for row i is not a
\* row failure: it adds no entry to error_list and leaves the row loop, so
\* rows i+1..N are never attempted; automation.process_file hands the
\* exception to its caller, returns no ledger, and driver.quit is still
\* called exactly once.
\* ------------------------------------------------------------------------
CallbackRaised == exc.at = "progress_callback"

C28_CallbackErrorPropagates ==
    /\ [](Core =>
            /\ \A k \in 1..Len(error_list) :
                  error_list[k].cause # "CallbackError"
            /\ CallbackRaised =>
                  /\ LeftLoop
                  /\ cbLog # <<>>
                  /\ cbLog[Len(cbLog)].current = idx + 1
                  /\ Len(rowsAttempted) = idx + 1
                  /\ Len(rowResults) = idx + 1
                  /\ Len(error_list) = Len(FailedResults)
                  /\ ret = NoRet
                  /\ IF Ended
                     THEN outcome = "raised" /\ raised = exc /\ quitCalls = 1
                     ELSE outcome = "running" /\ quitCalls = 0)
    /\ [][(Core /\ CallbackRaised) =>
            UNCHANGED <<ledgerVars, rowsAttempted, rowOps, rowResults, cbLog,
                        idx>>]_vars

\* the callback raised for row 1 of 2, a row that had been added: the run
\* ended raising, with row 2 never entered and one teardown call
C28_Witness ==
    /\ Core /\ Ended /\ CallbackRaised /\ Len(df) = 2
    /\ rowsAttempted = <<1>>
    /\ rowResults = <<[row |-> 1, ok |-> TRUE]>>
    /\ error_list = <<>> /\ success_count = 1
    /\ outcome = "raised" /\ quitCalls = 1

\* ------------------------------------------------------------------------
\* C29  Bot progress batching: once process_file has made all its progress
\* callbacks, the progress messages the callback has scheduled contain the
\* tick of every row exactly once - none is missing and none appears twice.
\* ------------------------------------------------------------------------
ProgressMessages == SelectSeq(sent, LAMBDA m : m.kind = "progress")

\* the places, message and position, where the tick of row c appears
TickPlaces(c) ==
    {<<m, k>> \in (1..Len(ProgressMessages)) \X (1..PROGRESS_PING_EVERY) :
        /\ k <= Len(ProgressMessages[m].body)
        /\ ProgressMessages[m].body[k].current = c}

C29_EveryTickOnce ==
    (pc \in {"bot_report", "bot_done"} /\ outcome = "returned") =>
        \A c \in 1..total_rows : Cardinality(TickPlaces(c)) = 1

\* ------------------------------------------------------------------------
\* C30  Bot terminal message: when handle_document has finished with a
\* document that passed validation, "Automation Complete" has been sent if
\* and only if process_file returned a ledger, "Automation Failed" has been
\* sent if and only if process_file raised, and never both.
\* ------------------------------------------------------------------------
Sent(kind) == \E i \in 1..Len(sent) : sent[i].kind = kind

C30_TerminalMessage ==
    (pc = "bot_done" /\ Sent("valid")) =>
        /\ Sent("complete") <=> outcome = "returned"
        /\ Sent("failed") <=> outcome = "raised"
        /\ ~(Sent("complete") /\ Sent("failed"))

\* the parts of it taken one by one
NeverBothTerminal == ~(Sent("complete") /\ Sent("failed"))

FailedOnlyIfRaised == Sent("failed") => outcome = "raised"

CompleteOnlyIfReturned == Sent("complete") => outcome = "returned"

\* ------------------------------------------------------------------------
\* C31  Bot ordering across threads: every progress message of a run is
\* scheduled before the final report of that run is sent, and the report is
\* built from the complete ledger - all total_rows progress callbacks have
\* returned and the report counts every row as added or failed.
\* ------------------------------------------------------------------------
ReportAt(i) == i \in 1..Len(sent) /\ sent[i].kind = "complete"

C31_ReportAfterProgress ==
    \A i \in 1..Len(sent) :
        ReportAt(i) =>
            /\ \A j \in 1..Len(sent) : sent[j].kind = "progress" => j < i
            /\ Len(progress_ticks) = total_rows
            /\ progress_ticks[total_rows].current = total_rows
            /\ sent[i].body = <<success_count, Len(error_list)>>
            /\ sent[i].body[1] + sent[i].body[2] = total_rows

C31_Witness ==
    /\ ReportAt(Len(sent))
    /\ Len(ProgressMessages) = 2
    /\ Len(error_list) = 1

\* ------------------------------------------------------------------------
\* C32  GUI session tracking: after any sequence of Test Login and Close
\* Browser actions, every session check_upload opened that has not been
\* quit is referenced by self.drivers, so at most one test-login session is
\* open per file index.
\* ------------------------------------------------------------------------
OpenSessions == {n \in 1..Len(sessions) : sessions[n].state = "open"}

Referenced(n) == \E i \in DOMAIN drivers : drivers[i] = n

C32_NoOrphanSession ==
    /\ \A n \in OpenSessions : Referenced(n)
    /\ \A n, m \in OpenSessions : sessions[n].index = sessions[m].index => n = m

\* ------------------------------------------------------------------------
\* C33  GUI run exclusivity: after any sequence of Start Automation clicks
\* and uploads, at most one worker thread is processing files at any time,
\* no file is inside process_file of two workers at once, and the GUI
\* thread does not change self.file_paths while a worker iterates it.
\* ------------------------------------------------------------------------
Iterating == {w \in 1..Len(workers) : workers[w].at # "done"}

InFile(i) == {w \in 1..Len(workers) : workers[w].at = "file" /\ workers[w].i = i}

OneRunAtATime ==
    /\ Cardinality(Iterating) <= 1
    /\ \A i \in file_paths : Cardinality(InFile(i)) <= 1

C33_RunExclusivity ==
    /\ []OneRunAtATime
    /\ [][Iterating # {} => (file_paths' = file_paths /\ file' = file)]_vars

====
